---- MODULE Spec2Model ----
(***************************************************************************)
(* Model of the conversational core of chatbot-sales-predictor:            *)
(*   src/src/chatbot.py   ChatbotEngine (session, instant cache, intent    *)
(*                        classifier, response composers)                  *)
(*   src/src/ml_engine.py MLEngine (the numeric collaborator)              *)
(*   src/src/api.py       the FastAPI handlers run by one asyncio loop     *)
(*   src/src/config.py    MAX_CONVERSATION_LENGTH                          *)
(*                                                                         *)
(* Text is modelled by TLA+ strings, which are sequences of characters:    *)
(* Len, \o and SubSeq act on them as Python's len, + and slicing do.       *)
(* Glyphs outside ASCII in the source's literals are written as a name in  *)
(* parentheses, e.g. (x) for the cross mark and (zap) for the lightning,  *)
(* and a backquote as an apostrophe.                                       *)
(* Python floats are fixed-point integers on the grid their format prints: *)
(* fractions in thousandths (.1%), values in hundredths (.2f), seconds in  *)
(* tenths (.1f).                                                           *)
(***************************************************************************)
EXTENDS Integers, Sequences, FiniteSets, TLC

VARIABLES
    conversation_history,  \* ChatbotEngine.conversation_history
    chat_ml,               \* ChatbotEngine.ml_engine (an MLEngine of its own)
    appended,              \* history variable: every entry appended since the last clear
    last,                  \* history variable: the last completed call, its result and the calls it made
    nsteps,                \* number of calls made so far (bounded by MaxSteps)
    input,                 \* SpecText: the text handed to the pure functions
    output,                \* SpecText: what they returned for it
    requests,              \* SpecApi: the HTTP requests received, by task id
    pc,                    \* SpecApi: each task's position in its handler
    running,               \* SpecApi: the task the event loop is executing, or NoTask
    responses,             \* SpecApi: the HTTP response sent for each task
    owners,                \* SpecApi history variable: the task that appended each entry of appended
    ml_engine,             \* api.py: the global MLEngine of the endpoints; a test's own MLEngine
    database,              \* dao.py: the committed rows of the tables the DAOs use
    db_session             \* dao.py: the SQLAlchemy session: its working copy of the tables and whether it holds uncommitted changes

vars == <<conversation_history, chat_ml, appended, last, nsteps,
          input, output, requests, pc, running, responses, owners, ml_engine, database, db_session>>

-----------------------------------------------------------------------------
(* Bounds of the model *)

MaxSteps == 2        \* calls per run of the sequential specification
MaxRequests == 2     \* HTTP requests per run of the API specification

-----------------------------------------------------------------------------
(* Text primitives: str.lower, str.strip, 'in', slicing, str(int) *)

UpperLetters == <<"A","B","C","D","E","F","G","H","I","J","K","L","M",
                  "N","O","P","Q","R","S","T","U","V","W","X","Y","Z">>
LowerLetters == <<"a","b","c","d","e","f","g","h","i","j","k","l","m",
                  "n","o","p","q","r","s","t","u","v","w","x","y","z">>
Whitespace == {" ", "\t", "\n", "\r"}

CharAt(s, i) == SubSeq(s, i, i)

lower_char(c) ==
    IF \E i \in 1..26 : UpperLetters[i] = c
    THEN LowerLetters[CHOOSE i \in 1..26 : UpperLetters[i] = c]
    ELSE c

upper_char(c) ==
    IF \E i \in 1..26 : LowerLetters[i] = c
    THEN UpperLetters[CHOOSE i \in 1..26 : LowerLetters[i] = c]
    ELSE c

RECURSIVE lower(_)
lower(s) == IF s = "" THEN "" ELSE lower_char(CharAt(s, 1)) \o lower(SubSeq(s, 2, Len(s)))

RECURSIVE upper(_)
upper(s) == IF s = "" THEN "" ELSE upper_char(CharAt(s, 1)) \o upper(SubSeq(s, 2, Len(s)))

RECURSIVE lstrip(_)
lstrip(s) ==
    IF s # "" /\ CharAt(s, 1) \in Whitespace THEN lstrip(SubSeq(s, 2, Len(s))) ELSE s

RECURSIVE rstrip(_)
rstrip(s) ==
    IF s # "" /\ CharAt(s, Len(s)) \in Whitespace THEN rstrip(SubSeq(s, 1, Len(s) - 1)) ELSE s

strip(s) == rstrip(lstrip(s))

\* Python's 'key in s' for strings
contains(key, s) ==
    \E i \in 1..(Len(s) - Len(key) + 1) : SubSeq(s, i, i + Len(key) - 1) = key

startswith(s, prefix) ==
    Len(prefix) <= Len(s) /\ SubSeq(s, 1, Len(prefix)) = prefix

\* Python's s[:n]
prefix_slice(s, n) == SubSeq(s, 1, IF Len(s) < n THEN Len(s) ELSE n)

Digits == <<"0","1","2","3","4","5","6","7","8","9">>

RECURSIVE str_int(_)
str_int(n) == IF n < 10 THEN Digits[n + 1] ELSE str_int(n \div 10) \o Digits[(n % 10) + 1]

\* f"{x:.1%}" for a fraction x given in thousandths
fmt_pct1(x) == str_int(x \div 10) \o "." \o str_int(x % 10) \o "%"
\* f"{x:.2f}" for a value given in hundredths
fmt_f2(x) == str_int(x \div 100) \o "." \o Digits[((x \div 10) % 10) + 1] \o Digits[(x % 10) + 1]
\* f"{x:.1f}" for a value given in tenths
fmt_f1(x) == str_int(x \div 10) \o "." \o str_int(x % 10)

-----------------------------------------------------------------------------
(* src/src/config.py *)

MAX_CONVERSATION_LENGTH == 50

-----------------------------------------------------------------------------
(* ChatbotEngine: the conversation session (chatbot.py 42-51, 356-362) *)

Message(role, content) == [role |-> role, content |-> content]

\* Python's lst[-n:] for n > 0
last_n(lst, n) == IF Len(lst) <= n THEN lst ELSE SubSeq(lst, Len(lst) - n + 1, Len(lst))

add_message_no_limit(history, role, content) == Append(history, Message(role, content))

add_message_keep_oldest(history, role, content) ==
    LET h == Append(history, Message(role, content))
    IN  IF Len(h) > MAX_CONVERSATION_LENGTH THEN SubSeq(h, 1, MAX_CONVERSATION_LENGTH) ELSE h

add_message_overwrites_newest(history, role, content) ==
    IF Len(history) >= MAX_CONVERSATION_LENGTH
    THEN [history EXCEPT ![Len(history)] = Message(role, content)]
    ELSE Append(history, Message(role, content))

add_message_odd_capacity(history, role, content) ==
    last_n(Append(history, Message(role, content)), MAX_CONVERSATION_LENGTH - 1)

add_message(history, role, content) ==
    LET h == Append(history, Message(role, content))
    IN  IF Len(h) > MAX_CONVERSATION_LENGTH
        THEN last_n(h, MAX_CONVERSATION_LENGTH)
        ELSE h

get_conversation_history(history) == history

clear_conversation_noop(history) == history

clear_conversation(history) == <<>>

-----------------------------------------------------------------------------
(* ChatbotEngine.__init__: simulation_responses (chatbot.py 14-40) *)

simulation_responses ==
    [greeting |->
        <<"Hello! (wave) I'm your AI-powered predictive assistant! How can I help you today?",
          "Hi there! (robot) Ready to explore data predictions together?",
          "Welcome! I'm here to help with ML analysis and predictions!">>,
     prediction |->
        <<"(crystal) Analyzing your data and generating predictions...",
          "(chart) Running prediction algorithms...",
          "(target) Forecasting based on detected patterns...">>,
     training |->
        <<"(robot) Initiating model training process...",
          "(brain) Optimizing hyperparameters...",
          "(zap) The model is learning from your data...">>,
     analysis |->
        <<"(trend) Analyzing trends in progress...",
          "(search) Searching for patterns in the dataset...",
          "(chart) Generating comprehensive analysis report...">>,
     general |->
        <<"Interesting! I can help you with that using my ML capabilities.",
          "Great question! Let me process that with my predictive algorithms.",
          "I'll analyze your request using my advanced ML models!">>]

\* random.choice(seq) with the draw made explicit
random_choice(seq, pick) == seq[pick]

-----------------------------------------------------------------------------
(* ChatbotEngine.detect_ml_intent (chatbot.py 53-91) *)

\* the dict literal, in insertion order (the order a Python dict iterates in)
ml_keywords ==
    << <<"predict", "prediction">>, <<"forecast", "prediction">>,
       <<"prediction", "prediction">>, <<"future", "prediction">>,
       <<"tomorrow", "prediction">>, <<"next", "prediction">>,
       <<"train", "training">>, <<"training", "training">>,
       <<"learn", "training">>, <<"model", "training">>,
       <<"optimize", "training">>,
       <<"analyze", "analysis">>, <<"analysis", "analysis">>,
       <<"trend", "analysis">>, <<"pattern", "analysis">>,
       <<"insight", "analysis">>, <<"data", "analysis">>,
       <<"hello", "greeting">>, <<"hi", "greeting">>,
       <<"hey", "greeting">>, <<"good", "greeting">> >>

\* confidence is kept in tenths: 8 is 0.8, 9 is 0.9
RECURSIVE scan_keywords(_, _, _)
scan_keywords(keywords, text, i) ==
    IF i > Len(keywords) THEN [intent |-> "general", confidence |-> 9]
    ELSE IF contains(keywords[i][1], text)
         THEN [intent |-> keywords[i][2], confidence |-> 8]
         ELSE scan_keywords(keywords, text, i + 1)

detect_ml_intent_case_sensitive(user_message) == scan_keywords(ml_keywords, user_message, 1)

detect_ml_intent_analysis_first(user_message) ==
    LET reordered == SubSeq(ml_keywords, 12, 17) \o SubSeq(ml_keywords, 1, 11)
                     \o SubSeq(ml_keywords, 18, 21)
    IN  scan_keywords(reordered, lower(user_message), 1)

detect_ml_intent(user_message) ==
    LET user_lower == lower(user_message)
    IN  scan_keywords(ml_keywords, user_lower, 1)

-----------------------------------------------------------------------------
(* ChatbotEngine.get_instant_response (chatbot.py 124-152) *)

\* the value None, and a returned str
None == [is_none |-> TRUE, value |-> ""]
Str(s) == [is_none |-> FALSE, value |-> s]
\* Python truthiness of an Optional[str]
truthy(r) == ~r.is_none /\ r.value # ""

instant_cache ==
    << <<"hello", "Hello! (wave) I'm your AI-powered predictive assistant! Ready for instant predictions?">>,
       <<"hi", "Hi there! (robot) Ready to explore data predictions together?">>,
       <<"hey", "Hey! (zap) Fast predictions at your service!">>,
       <<"status", "(ok) **System Status:** All operational | Models: Ready | Response: (zap) Instant">>,
       <<"help", "(bulb) **Quick Commands:** predict, train, analyze, status | What do you need?">>,
       <<"test", "(tube) **Test Successful!** All systems running at optimal speed (zap)">>,
       <<"speed", "(zap) **Ultra-Fast Mode Activated!** Response time: <100ms">> >>

speed_words == <<"quick", "fast", "rapid", "instant">>

lightning_response == "(zap) **Lightning Speed Activated!** Ready for instant ML predictions and analysis!"

RECURSIVE scan_cache(_, _)
scan_cache(text, i) ==
    IF i > Len(instant_cache) THEN None
    ELSE IF contains(instant_cache[i][1], text)
         THEN Str(instant_cache[i][2])
         ELSE scan_cache(text, i + 1)

instant_lookup(msg_lower) ==
    IF \E i \in 1..Len(instant_cache) : instant_cache[i][1] = msg_lower
    THEN Str(instant_cache[CHOOSE i \in 1..Len(instant_cache) : instant_cache[i][1] = msg_lower][2])
    ELSE LET by_keyword == scan_cache(msg_lower, 1)
         IN  IF ~by_keyword.is_none THEN by_keyword
             ELSE IF \E w \in 1..Len(speed_words) : contains(speed_words[w], msg_lower)
                  THEN Str(lightning_response)
                  ELSE None

get_instant_response_case_sensitive(message) == instant_lookup(strip(message))

get_instant_response_never(message) == None

get_instant_response_keys_only(message) ==
    LET msg_lower == strip(lower(message))
        by_keyword == scan_cache(msg_lower, 1)
    IN  IF \E i \in 1..Len(instant_cache) : instant_cache[i][1] = msg_lower
        THEN Str(instant_cache[CHOOSE i \in 1..Len(instant_cache) : instant_cache[i][1] = msg_lower][2])
        ELSE by_keyword

get_instant_response_exact_only(message) ==
    LET msg_lower == strip(lower(message))
    IN  IF \E i \in 1..Len(instant_cache) : instant_cache[i][1] = msg_lower
        THEN Str(instant_cache[CHOOSE i \in 1..Len(instant_cache) : instant_cache[i][1] = msg_lower][2])
        ELSE IF \E w \in 1..Len(speed_words) : contains(speed_words[w], msg_lower)
             THEN Str(lightning_response)
             ELSE None

get_instant_response(message) ==
    LET msg_lower == strip(lower(message))
    IN  instant_lookup(msg_lower)

-----------------------------------------------------------------------------
(* MLEngine, the numeric collaborator (ml_engine.py) *)

\* generate_sample_data draws 365 noisy values; the engine only ever reads the
\* figures kept here: the count, values[-30] and values[-1] (hundredths), and
\* the average, maximum and minimum (tenths).
HistoricalDraws ==
    { [data_points |-> 365, recent_first |-> 12900, last_value |-> 14600,
       avg_value |-> 1182, max_value |-> 1460, min_value |-> 905],
      [data_points |-> 365, recent_first |-> 13300, last_value |-> 12700,
       avg_value |-> 1179, max_value |-> 1390, min_value |-> 921] }

\* one row per joint draw of the random.uniform / random.randint calls of a call
NumericDraws ==
    << [trend_slope |-> 5, seasonal_amplitude |-> 150, noise_level |-> 50,
        score |-> 918, train_mae |-> 80, training_time |-> 124, improvement |-> 30,
        variation |-> -500, confidence |-> 850, accuracy |-> 920, mae |-> 500,
        anomalies |-> 2],
       [trend_slope |-> 15, seasonal_amplitude |-> 250, noise_level |-> 150,
        score |-> 850, train_mae |-> 150, training_time |-> 3, improvement |-> 80,
        variation |-> 500, confidence |-> 950, accuracy |-> 980, mae |-> 1200,
        anomalies |-> 8] >>

MLEngine(h) ==
    [model_name |-> "SimulatedML_v1",
     is_trained |-> FALSE,
     last_training_time |-> FALSE,       \* None; TRUE once a datetime is stored
     model_data |-> <<>>,                \* {} ; afterwards the dict of four figures
     historical_data |-> h]

train_model_unmarked(ml, d) ==
    [ml |-> [ml EXCEPT !.model_data = [mean_value |-> ml.historical_data.avg_value,
                                       trend_slope |-> d.trend_slope,
                                       seasonal_amplitude |-> d.seasonal_amplitude,
                                       noise_level |-> d.noise_level],
                       !.is_trained = FALSE,
                       !.last_training_time = TRUE],
     raised |-> FALSE,
     result |-> [model_name |-> ml.model_name,
                 score |-> d.score,
                 mae |-> d.train_mae,
                 training_time |-> d.training_time,
                 improvement |-> d.improvement]]

train_model(ml, d) ==
    [ml |-> [ml EXCEPT !.model_data = [mean_value |-> ml.historical_data.avg_value,
                                       trend_slope |-> d.trend_slope,
                                       seasonal_amplitude |-> d.seasonal_amplitude,
                                       noise_level |-> d.noise_level],
                       !.is_trained = TRUE,
                       !.last_training_time = TRUE],
     raised |-> FALSE,
     result |-> [model_name |-> ml.model_name,
                 score |-> d.score,
                 mae |-> d.train_mae,
                 training_time |-> d.training_time,
                 improvement |-> d.improvement]]

max0(x) == IF x < 0 THEN 0 ELSE x

RECURSIVE sum_seq(_)
sum_seq(q) == IF q = <<>> THEN 0 ELSE Head(q) + sum_seq(Tail(q))

predict_next_values_one_short(ml, n_days, d) ==
    LET ml1 == IF ~ml.is_trained THEN train_model(ml, d).ml ELSE ml
        last_value == ml1.historical_data.last_value
        predictions == [i \in 1..(n_days - 1) |->
                          max0(last_value + ml1.model_data.trend_slope * (i - 1) + d.variation)]
    IN  IF Len(predictions) = 0
        THEN [ml |-> ml1, raised |-> TRUE, error |-> "division by zero"]
        ELSE [ml |-> ml1, raised |-> FALSE,
              result |-> [prediction |-> sum_seq(predictions) \div Len(predictions),
                          predictions_detail |-> predictions,
                          confidence |-> d.confidence,
                          model_name |-> ml1.model_name,
                          accuracy |-> d.accuracy,
                          mae |-> d.mae,
                          dates |-> [i \in 1..n_days |-> i]]]

predict_next_values(ml, n_days, d) ==
    LET ml1 == IF ~ml.is_trained THEN train_model(ml, d).ml ELSE ml
        last_value == ml1.historical_data.last_value
        predictions == [i \in 1..n_days |->
                          max0(last_value + ml1.model_data.trend_slope * (i - 1) + d.variation)]
    IN  IF Len(predictions) = 0
        THEN [ml |-> ml1, raised |-> TRUE, error |-> "division by zero"]
        ELSE [ml |-> ml1, raised |-> FALSE,
              result |-> [prediction |-> sum_seq(predictions) \div Len(predictions),
                          predictions_detail |-> predictions,
                          confidence |-> d.confidence,
                          model_name |-> ml1.model_name,
                          accuracy |-> d.accuracy,
                          mae |-> d.mae,
                          dates |-> [i \in 1..n_days |-> i]]]

analyze_data(ml, d) ==
    LET h == ml.historical_data
        trend == IF h.last_value > h.recent_first THEN "Increasing" ELSE "Decreasing"
        amplitude == IF "seasonal_amplitude" \in DOMAIN ml.model_data
                     THEN ml.model_data.seasonal_amplitude ELSE 200
        insights == "(dot) Average value: " \o fmt_f1(h.avg_value)
                    \o "\n        (dot) Peak maximum: " \o fmt_f1(h.max_value)
                    \o "\n        (dot) Minimum value: " \o fmt_f1(h.min_value)
                    \o "\n        (dot) Volatility: "
                    \o (IF h.max_value - h.min_value > 500 THEN "High" ELSE "Moderate")
                    \o "\n        (dot) Seasonal pattern detected with amplitude ~"
                    \o fmt_f1(amplitude)
    IN  [ml |-> ml, raised |-> FALSE,
         result |-> [trend |-> trend,
                     correlations |-> <<"day_of_week (0.45)", "month (0.38)", "is_weekend (0.32)">>,
                     anomalies |-> d.anomalies,
                     insights |-> insights,
                     data_points |-> h.data_points,
                     date_range |-> "365 simulated days"]]

\* generate_sample_data builds and returns a year of data; only __init__ stores
\* what it returns
generate_sample_data(ml, h) == [ml |-> ml, raised |-> FALSE, result |-> h]

get_model_info(ml) ==
    [model_name |-> ml.model_name,
     is_trained |-> ml.is_trained,
     last_training |-> ml.last_training_time,
     model_exists |-> ml.is_trained,
     data_points |-> ml.historical_data.data_points]

\* What a call of the collaborator does under the draws e of the environment:
\* either the engine's own code runs, or the call fails with an exception
\* whose str() is e.error (a replaced or broken collaborator).
Failing(ml, e) == [ml |-> ml, raised |-> TRUE, error |-> e.error]

call_predict_next_values(ml, e) ==
    IF e.fails THEN Failing(ml, e) ELSE predict_next_values(ml, 7, NumericDraws[e.draw])

call_train_model(ml, e) ==
    IF e.fails THEN Failing(ml, e) ELSE train_model(ml, NumericDraws[e.draw])

call_analyze_data(ml, e) ==
    IF e.fails THEN Failing(ml, e) ELSE analyze_data(ml, NumericDraws[e.draw])

ErrorTexts == {"collaborator unavailable", ""}

Envs ==
    [pick : 1..3, fails : {FALSE}, draw : 1..Len(NumericDraws), error : {""}]
    \cup [pick : {1}, fails : {TRUE}, draw : {1}, error : ErrorTexts]

-----------------------------------------------------------------------------
(* ChatbotEngine: the response composers (chatbot.py 154-354) *)

\* The engine while a call runs: the session, the log of everything the call
\* handed to add_message (a history variable), the collaborator, and the
\* names of the operations invoked so far.
Engine(history, log, ml) == [history |-> history, log |-> log, ml |-> ml, calls |-> <<>>]

\* self.add_message(role, content)
append(eng, role, content) ==
    [eng EXCEPT !.history = add_message(eng.history, role, content),
                !.log = Append(eng.log, Message(role, content)),
                !.calls = Append(eng.calls, "add_message")]

called(eng, name) == [eng EXCEPT !.calls = Append(eng.calls, name)]

\* a call that returned ret, leaving the engine as eng
Returned(eng, ret) == [eng |-> eng, ret |-> ret]

handle_greeting_unrecorded(eng, e) ==
    Returned(called(eng, "handle_greeting"),
             random_choice(simulation_responses.greeting, e.pick))

handle_greeting(eng, e) ==
    LET response == random_choice(simulation_responses.greeting, e.pick)
    IN  Returned(append(called(eng, "handle_greeting"), "assistant", response), response)

join_comma(q) == q[1] \o ", " \o q[2] \o ", " \o q[3]

prediction_response_at_least(intro, r) ==
    intro
    \o "\n\n(crystal) **Prediction Generated Successfully!**\n\n**Average Forecast**: "
    \o fmt_f2(r.prediction)
    \o "\n**Confidence Level**: " \o fmt_pct1(r.confidence)
    \o "\n**Model Used**: " \o r.model_name
    \o "\n\n(chart) **Model Performance Metrics**:\n(dot) Accuracy: " \o fmt_pct1(r.accuracy)
    \o "\n(dot) Mean Absolute Error: " \o fmt_f2(r.mae)
    \o "\n\n(bulb) **Key Insight**: The trend appears "
    \o (IF r.prediction >= 15000 THEN "positive" ELSE "stable")
    \o " based on historical patterns.\n\nWould you like me to explain the methodology or generate additional forecasts?"

prediction_response(intro, r) ==
    intro
    \o "\n\n(crystal) **Prediction Generated Successfully!**\n\n**Average Forecast**: "
    \o fmt_f2(r.prediction)
    \o "\n**Confidence Level**: " \o fmt_pct1(r.confidence)
    \o "\n**Model Used**: " \o r.model_name
    \o "\n\n(chart) **Model Performance Metrics**:\n(dot) Accuracy: " \o fmt_pct1(r.accuracy)
    \o "\n(dot) Mean Absolute Error: " \o fmt_f2(r.mae)
    \o "\n\n(bulb) **Key Insight**: The trend appears "
    \o (IF r.prediction > 15000 THEN "positive" ELSE "stable")
    \o " based on historical patterns.\n\nWould you like me to explain the methodology or generate additional forecasts?"

training_response_whole_percent(intro, r) ==
    intro
    \o "\n\n(robot) **Model Training Completed Successfully!**\n\n**New Model**: " \o r.model_name
    \o "\n**Performance Score**: " \o str_int(r.score \div 10) \o "%"
    \o "\n**Training Duration**: " \o str_int(r.training_time \div 10) \o " seconds"
    \o "\n\n(trend) **Performance Improvements**:\n(dot) Accuracy: +" \o fmt_pct1(r.improvement)
    \o " vs previous model\n(dot) Overfitting: Well controlled (ok)\n(dot) Convergence: Optimal (ok)"
    \o "\n\n(rocket) **The model is now ready for ultra-precise predictions!**"
    \o "\n\nYou can now ask me for predictions using this newly trained model!"

training_response(intro, r) ==
    intro
    \o "\n\n(robot) **Model Training Completed Successfully!**\n\n**New Model**: " \o r.model_name
    \o "\n**Performance Score**: " \o fmt_pct1(r.score)
    \o "\n**Training Duration**: " \o fmt_f1(r.training_time) \o " seconds"
    \o "\n\n(trend) **Performance Improvements**:\n(dot) Accuracy: +" \o fmt_pct1(r.improvement)
    \o " vs previous model\n(dot) Overfitting: Well controlled (ok)\n(dot) Convergence: Optimal (ok)"
    \o "\n\n(rocket) **The model is now ready for ultra-precise predictions!**"
    \o "\n\nYou can now ask me for predictions using this newly trained model!"

analysis_response_any_case(intro, r) ==
    intro
    \o "\n\n(chart) **Comprehensive Data Analysis Complete**\n\n**(trend) Overall Trend**: " \o r.trend
    \o "\n**(link) Strong Correlations**: " \o join_comma(r.correlations)
    \o "\n**(warn) Anomalies Detected**: " \o str_int(r.anomalies) \o " suspicious data points"
    \o "\n**(chart) Dataset Volume**: " \o str_int(r.data_points) \o " records"
    \o "\n\n(bulb) **Key Insights**:\n" \o r.insights
    \o "\n\n(crystal) **Recommendations**:\n(dot) "
    \o (IF lower(r.trend) = "increasing" THEN "Maintain current strategy"
                                  ELSE "Adjust strategy to reverse the trend")
    \o "\n(dot) Monitor variables with strong correlations\n(dot) Investigate detected anomalies"
    \o "\n\nWould you like a prediction based on this analysis?"

analysis_response(intro, r) ==
    intro
    \o "\n\n(chart) **Comprehensive Data Analysis Complete**\n\n**(trend) Overall Trend**: " \o r.trend
    \o "\n**(link) Strong Correlations**: " \o join_comma(r.correlations)
    \o "\n**(warn) Anomalies Detected**: " \o str_int(r.anomalies) \o " suspicious data points"
    \o "\n**(chart) Dataset Volume**: " \o str_int(r.data_points) \o " records"
    \o "\n\n(bulb) **Key Insights**:\n" \o r.insights
    \o "\n\n(crystal) **Recommendations**:\n(dot) "
    \o (IF r.trend = "Increasing" THEN "Maintain current strategy"
                                  ELSE "Adjust strategy to reverse the trend")
    \o "\n(dot) Monitor variables with strong correlations\n(dot) Investigate detected anomalies"
    \o "\n\nWould you like a prediction based on this analysis?"

\* Each of the three composers below is the source's try/except: draw the intro,
\* call the collaborator, render and record the reply; on an exception record
\* and return the error text instead.

handle_prediction_request_drops_error(eng, user_message, e) ==
    LET intro == random_choice(simulation_responses.prediction, e.pick)
        out == call_predict_next_values(eng.ml, e)
        eng1 == [called(called(eng, "handle_prediction_request"), "predict_next_values") EXCEPT !.ml = out.ml]
    IN  IF out.raised
        THEN Returned(eng1, "(x) Error during prediction: " \o out.error)
        ELSE LET response == prediction_response(intro, out.result)
             IN  Returned(append(eng1, "assistant", response), response)

handle_prediction_request(eng, user_message, e) ==
    LET intro == random_choice(simulation_responses.prediction, e.pick)
        out == call_predict_next_values(eng.ml, e)
        eng1 == [called(called(eng, "handle_prediction_request"), "predict_next_values") EXCEPT !.ml = out.ml]
    IN  IF out.raised
        THEN LET error_msg == "(x) Error during prediction: " \o out.error
             IN  Returned(append(eng1, "assistant", error_msg), error_msg)
        ELSE LET response == prediction_response(intro, out.result)
             IN  Returned(append(eng1, "assistant", response), response)

handle_training_request(eng, user_message, e) ==
    LET intro == random_choice(simulation_responses.training, e.pick)
        out == call_train_model(eng.ml, e)
        eng1 == [called(called(eng, "handle_training_request"), "train_model") EXCEPT !.ml = out.ml]
    IN  IF out.raised
        THEN LET error_msg == "(x) Error during training: " \o out.error
             IN  Returned(append(eng1, "assistant", error_msg), error_msg)
        ELSE LET response == training_response(intro, out.result)
             IN  Returned(append(eng1, "assistant", response), response)

handle_analysis_request(eng, user_message, e) ==
    LET intro == random_choice(simulation_responses.analysis, e.pick)
        out == call_analyze_data(eng.ml, e)
        eng1 == [called(called(eng, "handle_analysis_request"), "analyze_data") EXCEPT !.ml = out.ml]
    IN  IF out.raised
        THEN LET error_msg == "(x) Error during analysis: " \o out.error
             IN  Returned(append(eng1, "assistant", error_msg), error_msg)
        ELSE LET response == analysis_response(intro, out.result)
             IN  Returned(append(eng1, "assistant", response), response)

any_in(words, text) == \E i \in 1..Len(words) : contains(words[i], text)

how_it_works_response ==
    "(robot) **How I Work - Technical Overview**\n\nI'm an AI assistant specialized in predictive analytics! Here's what I can do:"
    \o "\n\n(crystal) **Predictions**: \"Predict tomorrow's sales\"\n(robot) **Model Training**: \"Train a new model\" \n(chart) **Data Analysis**: \"Analyze current trends\""
    \o "\n\n**Core Technologies**:\n(dot) Machine Learning (RandomForest, AutoML)\n(dot) Time series analysis\n(dot) Anomaly detection\n(dot) Automated feature engineering"
    \o "\n\n**Supported Data Types**:\n(dot) Sales, revenue, business metrics\n(dot) Temporal data with seasonality\n(dot) Multi-variable datasets (weather, marketing, etc.)"
    \o "\n\nTry a command to see the magic in action! (sparkles)"

help_response ==
    "(bulb) **Help - Available Commands**"
    \o "\n\n**(crystal) For Predictions:**\n(dot) \"Predict tomorrow's sales\"\n(dot) \"Forecast next 7 days\"\n(dot) \"What's the trend analysis?\""
    \o "\n\n**(robot) For Training:**\n(dot) \"Train a new model\"\n(dot) \"Improve accuracy\"\n(dot) \"Optimize parameters\""
    \o "\n\n**(chart) For Analysis:**\n(dot) \"Analyze current data\"\n(dot) \"Show me trends\"\n(dot) \"Detect anomalies\""
    \o "\n\n**(speech) General Questions:**\n(dot) \"How does this work?\"\n(dot) \"What data do you use?\"\n(dot) \"Explain your methods\""
    \o "\n\nWhat interests you the most?"

data_sources_response ==
    "(chart) **My Data Sources & Processing**"
    \o "\n\n**(trend) Primary Dataset:**\n(dot) 700+ days of sales data\n(dot) Variables: sales, weather, marketing, calendar\n(dot) Period: 2023-2024 (synthetic but realistic data)"
    \o "\n\n**(search) Features Used:**\n(dot) 'sales' : Daily sales (target variable)\n(dot) 'day_of_week' : Day of week (0-6)\n(dot) 'month' : Month (1-12) \n(dot) 'is_weekend' : Weekend flag (0/1)\n(dot) 'temperature' : Average temperature\n(dot) 'marketing_spend' : Daily marketing budget"
    \o "\n\n**(brain) Automated Preprocessing:**\n(dot) Missing value handling\n(dot) Feature normalization\n(dot) Temporal feature engineering\n(dot) Intelligent train/test split"
    \o "\n\nThe data is generated with realistic patterns: trend + seasonality + noise!"

generic_response(intro, user_message) ==
    intro
    \o "\n\n**(bulb) Based on your message (\"" \o prefix_slice(user_message, 50) \o "...\"), I can:**"
    \o "\n\n(dot) (crystal) Generate relevant predictions\n(dot) (chart) Analyze hidden patterns  \n(dot) (robot) Train optimized models\n(dot) (bulb) Provide actionable insights"
    \o "\n\n**Quick Example:** Say \"Predict tomorrow\" and I'll show you my ML power! "
    \o "\n\nWhat would you like to explore?"

handle_general_request_help_first(eng, user_message, e) ==
    LET user_lower == lower(user_message)
        response ==
            IF any_in(<<"help", "assistance", "commands">>, user_lower)
            THEN help_response
            ELSE IF any_in(<<"how", "work", "explain", "methodology">>, user_lower)
            THEN how_it_works_response
            ELSE IF any_in(<<"data", "dataset", "information">>, user_lower)
            THEN data_sources_response
            ELSE generic_response(random_choice(simulation_responses.general, e.pick),
                                  user_message)
    IN  Returned(append(called(eng, "handle_general_request"), "assistant", response), response)

handle_general_request(eng, user_message, e) ==
    LET user_lower == lower(user_message)
        response ==
            IF any_in(<<"how", "work", "explain", "methodology">>, user_lower)
            THEN how_it_works_response
            ELSE IF any_in(<<"help", "assistance", "commands">>, user_lower)
            THEN help_response
            ELSE IF any_in(<<"data", "dataset", "information">>, user_lower)
            THEN data_sources_response
            ELSE generic_response(random_choice(simulation_responses.general, e.pick),
                                  user_message)
    IN  Returned(append(called(eng, "handle_general_request"), "assistant", response), response)

-----------------------------------------------------------------------------
(* ChatbotEngine.process_message (chatbot.py 93-122) *)

NoTask == 0


\* simulate_typing_delay is time.sleep: the calling task keeps the event loop
\* while it sleeps.  The value is the task that owns the loop afterwards.
simulate_typing_delay(task) == task

\* the method get_instant_response called on an engine: it reads its argument
\* and a local dict, and assigns to no attribute of self
get_instant_response_recording(eng, message) ==
    LET reply == get_instant_response(message)
    IN  Returned(IF truthy(reply)
                 THEN append(called(eng, "get_instant_response"), "assistant", reply.value)
                 ELSE called(eng, "get_instant_response"),
                 reply)

get_instant_response_on(eng, message) ==
    Returned(called(eng, "get_instant_response"), get_instant_response(message))

\* lines 99-105: record the user's message, then try the instant cache
process_message_begin(eng, user_message) ==
    LET eng1 == append(eng, "user", user_message)
        looked_up == get_instant_response_on(eng1, user_message)
        instant_response == looked_up.ret
        eng2 == looked_up.eng
    IN  IF truthy(instant_response)
        THEN [done |-> TRUE,
              eng |-> append(eng2, "assistant", instant_response.value),
              ret |-> instant_response.value]
        ELSE [done |-> FALSE, eng |-> called(eng2, "simulate_typing_delay"), ret |-> ""]

\* lines 110-122: classify and hand over to the composer of the intent
process_message_dispatch(eng, user_message, e) ==
    LET intent_result == detect_ml_intent(user_message)
        eng1 == called(eng, "detect_ml_intent")
    IN  IF intent_result.intent = "greeting" THEN handle_greeting(eng1, e)
        ELSE IF intent_result.intent = "prediction"
             THEN handle_prediction_request(eng1, user_message, e)
        ELSE IF intent_result.intent = "training"
             THEN handle_training_request(eng1, user_message, e)
        ELSE IF intent_result.intent = "analysis"
             THEN handle_analysis_request(eng1, user_message, e)
        ELSE handle_general_request(eng1, user_message, e)

process_message(eng, user_message, e) ==
    LET b == process_message_begin(eng, user_message)
    IN  IF b.done THEN Returned(b.eng, b.ret)
        ELSE process_message_dispatch(b.eng, user_message, e)

-----------------------------------------------------------------------------
(* The sequential specification: one caller using a ChatbotEngine directly, *)
(* as the tests do (tests/test_basic.py 50-95)                              *)

Roles == {"user", "assistant"}

\* contents handed to add_message directly
Contents == {"Test message", "Hello"}

\* messages handed to process_message: one per path through it at least
ProcessInputs ==
    {"hello", "  Hello ", "this is it", "quick question", "good morning",
     "predict next week", "Train a new model", "Analyze current data", "what now"}

\* The draws a call of process_message consumes: none on an instant reply, the
\* template pick alone for a greeting or a general reply, and the pick, the
\* collaborator's figures and its failure otherwise.
Draws(user_message) ==
    IF truthy(get_instant_response(user_message))
    THEN {e \in Envs : ~e.fails /\ e.draw = 1 /\ e.pick = 1}
    ELSE IF detect_ml_intent(user_message).intent \in {"greeting", "general"}
         THEN {e \in Envs : ~e.fails /\ e.draw = 1}
         ELSE Envs

\* lengths of the loop of test_conversation_limit
LoopCounts ==
    {MAX_CONVERSATION_LENGTH - 1, MAX_CONVERSATION_LENGTH, MAX_CONVERSATION_LENGTH + 1,
     MAX_CONVERSATION_LENGTH + 10}

NoCall ==
    [op |-> "none", role |-> "", arg |-> "", ret |-> "", history_ret |-> <<>>,
     calls |-> <<>>, before |-> <<>>, fails |-> FALSE]

\* no database is connected: neither api.py nor chatbot.py imports the DAOs
NoDatabase == <<>>

\* no module-level MLEngine exists when ChatbotEngine is used on its own
NoEngine == <<>>

IdleText == input = "" /\ output = [fn |-> "none"]

IdleApi ==
    /\ requests = <<>> /\ pc = <<>> /\ running = NoTask
    /\ responses = <<>> /\ owners = <<>>

Init ==
    /\ conversation_history = <<>>
    /\ chat_ml \in {MLEngine(h) : h \in HistoricalDraws}
    /\ appended = <<>>
    /\ last = NoCall
    /\ nsteps = 0
    /\ IdleText
    /\ IdleApi
    /\ ml_engine = NoEngine
    /\ database = NoDatabase
    /\ db_session = NoDatabase

AddMessage(role, content) ==
    /\ nsteps < MaxSteps
    /\ conversation_history' = add_message(conversation_history, role, content)
    /\ appended' = Append(appended, Message(role, content))
    /\ last' = [NoCall EXCEPT !.op = "add_message", !.role = role, !.arg = content,
                              !.before = conversation_history]
    /\ nsteps' = nsteps + 1
    /\ UNCHANGED <<chat_ml, input, output, requests, pc, running, responses, owners, ml_engine, database, db_session>>

\* for i in range(n): add_message("user", f"Message {i}")
RECURSIVE add_messages_loop(_, _, _)
add_messages_loop(eng, i, n) ==
    IF i >= n THEN eng
    ELSE add_messages_loop(append(eng, "user", "Message " \o str_int(i)), i + 1, n)

AddMessagesLoop(n) ==
    /\ nsteps < MaxSteps
    /\ LET eng == add_messages_loop(Engine(conversation_history, appended, chat_ml), 0, n)
       IN  /\ conversation_history' = eng.history
           /\ appended' = eng.log
           /\ last' = [NoCall EXCEPT !.op = "add_messages_loop", !.role = "user",
                                     !.calls = eng.calls, !.before = conversation_history]
    /\ nsteps' = nsteps + 1
    /\ UNCHANGED <<chat_ml, input, output, requests, pc, running, responses, owners, ml_engine, database, db_session>>

ProcessMessage(user_message, e) ==
    /\ nsteps < MaxSteps
    /\ LET r == process_message(Engine(conversation_history, appended, chat_ml),
                                user_message, e)
       IN  /\ conversation_history' = r.eng.history
           /\ appended' = r.eng.log
           /\ chat_ml' = r.eng.ml
           /\ last' = [NoCall EXCEPT !.op = "process_message", !.arg = user_message,
                                     !.ret = r.ret, !.calls = r.eng.calls,
                                     !.before = conversation_history, !.fails = e.fails]
    /\ nsteps' = nsteps + 1
    /\ UNCHANGED <<input, output, requests, pc, running, responses, owners, ml_engine, database, db_session>>

GetConversationHistory ==
    /\ nsteps < MaxSteps
    /\ last' = [NoCall EXCEPT !.op = "get_conversation_history",
                              !.history_ret = get_conversation_history(conversation_history),
                              !.before = conversation_history]
    /\ nsteps' = nsteps + 1
    /\ UNCHANGED <<conversation_history, chat_ml, appended,
                   input, output, requests, pc, running, responses, owners, ml_engine, database, db_session>>

ClearConversation ==
    /\ nsteps < MaxSteps
    /\ conversation_history' = clear_conversation(conversation_history)
    /\ appended' = <<>>
    /\ last' = [NoCall EXCEPT !.op = "clear_conversation", !.before = conversation_history]
    /\ nsteps' = nsteps + 1
    /\ UNCHANGED <<chat_ml, input, output, requests, pc, running, responses, owners, ml_engine, database, db_session>>

Next ==
    \/ \E role \in Roles, content \in Contents : AddMessage(role, content)
    \/ \E n \in LoopCounts : AddMessagesLoop(n)
    \/ \E m \in ProcessInputs : \E e \in Draws(m) : ProcessMessage(m, e)
    \/ GetConversationHistory
    \/ ClearConversation

Spec == Init /\ [][Next]_vars

-----------------------------------------------------------------------------
(* The text specification: the classifier, the instant cache and the routing *)
(* of process_message applied to one text drawn from TextInputs              *)

Range(q) == {q[i] : i \in 1..Len(q)}

KeywordsOf(intent) == {kw[1] : kw \in {k \in Range(ml_keywords) : k[2] = intent}}

CacheKeys == {entry[1] : entry \in Range(instant_cache)}

\* words that carry no keyword of their own, and two that hide one ("this"
\* holds "hi", "contest" holds "test")
Fillers == {"", "what", "sales", "please", "this", "contest"}

Words ==
    {kw[1] : kw \in Range(ml_keywords)} \cup CacheKeys \cup Range(speed_words) \cup Fillers

\* every word alone and every ordered pair of words, as typed, in capitals
\* and padded with blanks
\* the two messages of test_intent_detection; their accented letters, which
\* lower() maps to themselves and no keyword contains, are written (e') and (c,)
TestIntentInputs == {"Pr(e')dit les ventes", "Bonjour comment (c,)a va?"}

\* the example commands the help template lists (chatbot.py 292-310), each
\* with the composer of the category it is listed under
HelpExamples ==
    {<<"handle_prediction_request", "Predict tomorrow's sales">>,
     <<"handle_prediction_request", "Forecast next 7 days">>,
     <<"handle_prediction_request", "What's the trend analysis?">>,
     <<"handle_training_request", "Train a new model">>,
     <<"handle_training_request", "Improve accuracy">>,
     <<"handle_training_request", "Optimize parameters">>,
     <<"handle_analysis_request", "Analyze current data">>,
     <<"handle_analysis_request", "Show me trends">>,
     <<"handle_analysis_request", "Detect anomalies">>,
     <<"handle_general_request", "How does this work?">>,
     <<"handle_general_request", "What data do you use?">>,
     <<"handle_general_request", "Explain your methods">>}

TextInputs ==
    LET plain == Words \cup {a \o " " \o b : a \in Words, b \in Words}
    IN  plain \cup {upper(w) : w \in plain} \cup {"  " \o upper_char(CharAt(w, 1))
                      \o SubSeq(w, 2, Len(w)) \o " \n" : w \in Words \ {""}}
        \cup TestIntentInputs
        \cup {x[2] : x \in HelpExamples}

NoOutput == [fn |-> "none"]

InitText ==
    /\ input \in TextInputs
    /\ output = NoOutput
    /\ conversation_history = <<>>
    /\ chat_ml \in {MLEngine(h) : h \in HistoricalDraws}
    /\ appended = <<>>
    /\ last = NoCall
    /\ nsteps = 0
    /\ IdleApi
    /\ ml_engine = NoEngine
    /\ database = NoDatabase
    /\ db_session = NoDatabase

UnchangedByText ==
    UNCHANGED <<conversation_history, chat_ml, appended, last, nsteps, input,
                requests, pc, running, responses, owners, ml_engine, database, db_session>>

DetectIntent ==
    /\ output = NoOutput
    /\ output' = [fn |-> "detect_ml_intent", intent_result |-> detect_ml_intent(input)]
    /\ UnchangedByText

InstantResponse ==
    /\ output = NoOutput
    /\ output' = [fn |-> "get_instant_response", instant |-> get_instant_response(input)]
    /\ UnchangedByText

\* process_message on the engine as constructed; the session is left alone so
\* that the state keeps the text and its routing only
Route ==
    /\ output = NoOutput
    /\ \E e \in Draws(input) :
         LET r == process_message(Engine(conversation_history, appended, chat_ml), input, e)
         IN  output' = [fn |-> "process_message", ret |-> r.ret, calls |-> r.eng.calls,
                        log |-> r.eng.log]
    /\ UnchangedByText

NextText == DetectIntent \/ InstantResponse \/ Route

SpecText == InitText /\ [][NextText]_vars

-----------------------------------------------------------------------------
(* Claims about the conversation session *)

\* C1: in every reachable state the conversation history holds at most
\* MAX_CONVERSATION_LENGTH (50) entries, whatever add_message, process_message
\* and clear_conversation calls came before.
C1_LengthBounded == Len(conversation_history) <= MAX_CONVERSATION_LENGTH

\* C1 witness: the history is full and entries have already been evicted
C1_Witness ==
    /\ Len(conversation_history) = MAX_CONVERSATION_LENGTH
    /\ Len(appended) > MAX_CONVERSATION_LENGTH

\* C2: eviction is FIFO: once more than `capacity` messages have been appended
\* to an empty session, get_conversation_history returns exactly the last
\* `capacity` of them, in the order they were appended.
C2_FifoEviction ==
    Len(appended) > MAX_CONVERSATION_LENGTH =>
        get_conversation_history(conversation_history)
            = SubSeq(appended, Len(appended) - MAX_CONVERSATION_LENGTH + 1, Len(appended))

\* C2 witness: capacity+1 appends, of which only the oldest is gone
C2_Witness ==
    /\ Len(appended) = MAX_CONVERSATION_LENGTH + 1
    /\ Len(conversation_history) = MAX_CONVERSATION_LENGTH
    /\ conversation_history[1] = appended[2]
    /\ appended[1] # appended[2]

CountOf(q, x) == Cardinality({i \in 1..Len(q) : q[i] = x})

CollaboratorOps == {"predict_next_values", "train_model", "analyze_data"}

\* C3: a process_message(m) call that returns has appended exactly two
\* entries, (user, m) and then (assistant, r) with r the returned reply, on
\* every path through it.
C3_TwoEntriesPerCall ==
    last.op = "process_message" =>
        /\ CountOf(last.calls, "add_message") = 2
        /\ conversation_history
             = last_n(last.before \o <<Message("user", last.arg),
                                       Message("assistant", last.ret)>>,
                      MAX_CONVERSATION_LENGTH)

\* C3 witness: a call routed to the greeting composer on a full history
C3_Witness ==
    /\ last.op = "process_message"
    /\ CountOf(last.calls, "handle_greeting") = 1
    /\ Len(last.before) = MAX_CONVERSATION_LENGTH

ErrorMarker(calls) ==
    IF CountOf(calls, "predict_next_values") > 0 THEN "(x) Error during prediction: "
    ELSE IF CountOf(calls, "train_model") > 0 THEN "(x) Error during training: "
    ELSE "(x) Error during analysis: "

\* C4: when the collaborator raises during a prediction, training or analysis
\* request, process_message returns a text that begins with the failure
\* marker, and that text is the last entry of the history, an assistant
\* message directly after the user's message.
C4_FailureIsRecorded ==
    (last.op = "process_message" /\ last.fails) =>
        /\ startswith(last.ret, ErrorMarker(last.calls))
        /\ Len(conversation_history) >= 2
        /\ conversation_history[Len(conversation_history)] = Message("assistant", last.ret)
        /\ conversation_history[Len(conversation_history) - 1] = Message("user", last.arg)

\* C4 witness: predict_next_values failed while handling "predict next week"
C4_Witness ==
    /\ last.op = "process_message"
    /\ last.fails
    /\ last.arg = "predict next week"
    /\ CountOf(last.calls, "predict_next_values") = 1

CacheReply(key) ==
    instant_cache[CHOOSE i \in 1..Len(instant_cache) : instant_cache[i][1] = key][2]

\* C7 as stated: process_message("hello") returns one of the three strings of
\* simulation_responses["greeting"].
C7_HelloInGreetingTemplates ==
    (last.op = "process_message" /\ last.arg = "hello") =>
        last.ret \in Range(simulation_responses.greeting)

\* C7 as amended: process_message("hello") returns the fixed greeting string
\* that the instant cache holds for the key hello.
C7_HelloIsInstantGreeting ==
    (last.op = "process_message" /\ last.arg = "hello") =>
        last.ret = CacheReply("hello")

\* C7 witness: "hello" has been processed
C7_Witness ==
    /\ last.op = "process_message"
    /\ last.arg = "hello"
    /\ last.ret # ""

-----------------------------------------------------------------------------
(* Claims about the classifier and the instant cache *)

\* C5: an input that equals an instant-cache key once trimmed and lowercased
\* gets exactly that key's canned reply, and neither detect_ml_intent nor a
\* collaborator operation is invoked.
C5_ExactKeyShortCircuits ==
    (output.fn = "process_message" /\ strip(lower(input)) \in CacheKeys) =>
        /\ output.ret = CacheReply(strip(lower(input)))
        /\ CountOf(output.calls, "detect_ml_intent") = 0
        /\ \A op \in CollaboratorOps : CountOf(output.calls, op) = 0

\* C5 witness: a key typed with a capital and blanks around it
C5_Witness ==
    /\ output.fn = "process_message"
    /\ input = "  Status \n"
    /\ output.ret = CacheReply("status")

HasKeyword(intent, text) == \E kw \in KeywordsOf(intent) : contains(kw, text)

CacheMiss(text) == get_instant_response(text).is_none

\* C6 as stated: an input that contains a training keyword and is not answered
\* by the instant cache is classified as training.
C6_TrainingKeywordWins ==
    (output.fn = "detect_ml_intent" /\ HasKeyword("training", lower(input))
       /\ CacheMiss(input)) =>
        output.intent_result.intent = "training"

\* C6 as amended: an input whose lowercased text contains a training keyword
\* and no prediction keyword, and which is not answered by the instant cache,
\* is classified as training
\* (and process_message dispatches it to the training composer).
C6_TrainingUnlessPrediction ==
    (HasKeyword("training", lower(input)) /\ ~HasKeyword("prediction", lower(input))
       /\ CacheMiss(input)) =>
        /\ output.fn = "detect_ml_intent" => output.intent_result.intent = "training"
        /\ output.fn = "process_message" =>
              CountOf(output.calls, "handle_training_request") = 1

\* C6 witness: a training keyword next to an analysis keyword
C6_Witness ==
    /\ output.fn = "detect_ml_intent"
    /\ input = "data model"
    /\ CacheMiss(input)

Intents == {"greeting", "prediction", "training", "analysis", "general"}

KeyHit(t) == \E key \in CacheKeys : contains(key, t)

FirstKeyReply(t) ==
    instant_cache[CHOOSE i \in 1..Len(instant_cache) :
                     /\ contains(instant_cache[i][1], t)
                     /\ \A j \in 1..(i - 1) : ~contains(instant_cache[j][1], t)][2]

\* C9 as stated: get_instant_response returns a canned reply if and only if
\* the trimmed, lowercased input equals or contains a cache key (the reply of
\* the exact key, else of the first key contained); otherwise it returns None.
C9_ReplyIffKey ==
    output.fn = "get_instant_response" =>
        LET t == strip(lower(input))
        IN  IF t \in CacheKeys THEN output.instant = Str(CacheReply(t))
            ELSE IF KeyHit(t) THEN output.instant = Str(FirstKeyReply(t))
            ELSE output.instant = None

\* C9 as amended: get_instant_response returns a canned reply if and only if
\* the trimmed, lowercased input equals or contains a cache key, or contains
\* one of the words quick, fast, rapid, instant (the reply of the exact key,
\* else of the first key contained, else the lightning-speed reply);
\* otherwise it returns None.
C9_ReplyIffKeyOrSpeedWord ==
    output.fn = "get_instant_response" =>
        LET t == strip(lower(input))
        IN  IF t \in CacheKeys THEN output.instant = Str(CacheReply(t))
            ELSE IF KeyHit(t) THEN output.instant = Str(FirstKeyReply(t))
            ELSE IF \E w \in Range(speed_words) : contains(w, t)
                 THEN output.instant = Str(lightning_response)
                 ELSE output.instant = None

\* C9 witness: a speed word and no cache key
C9_Witness ==
    /\ output.fn = "get_instant_response"
    /\ input = "quick sales"
    /\ ~output.instant.is_none

-----------------------------------------------------------------------------
(* The API specification: the handlers of api.py (29-84) on the one global   *)
(* chatbot, run as tasks by a single asyncio event loop.  A task holds the   *)
(* loop from the moment it is scheduled until it finishes or suspends.       *)

\* The body of a /chat request is any JSON object: the message may be absent,
\* a string, or a value of another JSON type, kept here as its text with its
\* type beside it (the numbers 123 and 0).
ChatRequests ==
    {[kind |-> "chat", has_message |-> TRUE, message |-> m, json_type |-> "string"] :
        m \in {"", "hello", "good morning", "predict next week"}}
    \cup {[kind |-> "chat", has_message |-> FALSE, message |-> "", json_type |-> "string"]}
    \cup {[kind |-> "chat", has_message |-> TRUE, message |-> m, json_type |-> "number"] :
        m \in {"123", "0"}}

Requests ==
    ChatRequests
    \cup {[kind |-> k, has_message |-> FALSE, message |-> "", json_type |-> "string"] :
            k \in {"get_conversation", "delete_conversation"}}

NoResponse == [status |-> 0]

Tasks == 1..Len(requests)

InitApi ==
    /\ conversation_history = <<>>
    /\ chat_ml \in {MLEngine(h) : h \in HistoricalDraws}
    /\ appended = <<>>
    /\ last = NoCall
    /\ nsteps = 0
    /\ IdleText
    /\ IdleApi
    /\ ml_engine \in {MLEngine(h) : h \in HistoricalDraws}
    /\ database = NoDatabase
    /\ db_session = NoDatabase

UnchangedByApi == UNCHANGED <<last, nsteps, input, output, ml_engine, database, db_session>>

\* a request arrives; its handler becomes a task of the loop
Receive(req) ==
    /\ Len(requests) < MaxRequests
    /\ requests' = Append(requests, req)
    /\ pc' = Append(pc, "pending")
    /\ responses' = Append(responses, NoResponse)
    /\ UNCHANGED <<conversation_history, chat_ml, appended, running, owners>>
    /\ UnchangedByApi

\* data.get("message", "")
body_message(req) == IF req.has_message THEN req.message ELSE ""

\* Python truthiness of data.get("message", ""): "" and 0 are falsy
json_truthy(req) ==
    /\ req.has_message
    /\ IF req.json_type = "string" THEN req.message # "" ELSE req.message # "0"

\* str(e) of the HTTPException raised for a missing message: "400: Message
\* requis" where the framework defines __str__, empty where it does not
HTTPExceptionStr == {"400: Message requis", ""}

\* process_message on a value that is not a str: the user entry is recorded
\* (line 99), then message.lower() in get_instant_response raises (line 126)
process_message_non_text(eng, value) ==
    [eng |-> called(append(eng, "user", value), "get_instant_response"),
     raised |-> TRUE,
     error |-> "'int' object has no attribute 'lower'"]

\* the entries a step of task t added to the log
owned_by(t, log) == owners \o [i \in 1..(Len(log) - Len(owners)) |-> t]

\* chat_endpoint up to the first point where process_message may give up the loop
ChatBegin(t) ==
    /\ running = NoTask
    /\ pc[t] = "pending"
    /\ requests[t].kind = "chat"
    /\ LET message == body_message(requests[t])
       IN  IF ~json_truthy(requests[t])
           THEN \* HTTPException(400) is raised inside the try and caught by
                \* 'except Exception', which answers 500
                /\ \E text \in HTTPExceptionStr :
                      responses' = [responses EXCEPT ![t] =
                          [status |-> 500, detail |-> "Erreur de chat: " \o text]]
                /\ pc' = [pc EXCEPT ![t] = "done"]
                /\ UNCHANGED <<conversation_history, chat_ml, appended, running, owners>>
           ELSE IF requests[t].json_type # "string"
           THEN \* the exception leaves process_message and is answered with 500
                LET r == process_message_non_text(
                             Engine(conversation_history, appended, chat_ml), message)
                IN  /\ conversation_history' = r.eng.history
                    /\ appended' = r.eng.log
                    /\ owners' = owned_by(t, r.eng.log)
                    /\ responses' = [responses EXCEPT ![t] =
                           [status |-> 500, detail |-> "Erreur de chat: " \o r.error]]
                    /\ pc' = [pc EXCEPT ![t] = "done"]
                    /\ UNCHANGED <<chat_ml, running>>
           ELSE LET b == process_message_begin(
                             Engine(conversation_history, appended, chat_ml), message)
                IN  /\ conversation_history' = b.eng.history
                    /\ appended' = b.eng.log
                    /\ owners' = owned_by(t, b.eng.log)
                    /\ UNCHANGED chat_ml
                    /\ IF b.done
                       THEN /\ responses' = [responses EXCEPT ![t] =
                                   [status |-> 200, response |-> b.ret]]
                            /\ pc' = [pc EXCEPT ![t] = "done"]
                            /\ UNCHANGED running
                       ELSE /\ pc' = [pc EXCEPT ![t] = "delay"]
                            /\ running' = simulate_typing_delay(t)
                            /\ UNCHANGED responses
    /\ UNCHANGED requests
    /\ UnchangedByApi

\* chat_endpoint from the end of the delay to its response
ChatResume(t) ==
    /\ pc[t] = "delay"
    /\ running \in {t, NoTask}
    /\ \E e \in Draws(body_message(requests[t])) :
         LET r == process_message_dispatch(
                      Engine(conversation_history, appended, chat_ml),
                      body_message(requests[t]), e)
         IN  /\ conversation_history' = r.eng.history
             /\ appended' = r.eng.log
             /\ owners' = owned_by(t, r.eng.log)
             /\ chat_ml' = r.eng.ml
             /\ responses' = [responses EXCEPT ![t] = [status |-> 200, response |-> r.ret]]
    /\ pc' = [pc EXCEPT ![t] = "done"]
    /\ running' = NoTask
    /\ UNCHANGED requests
    /\ UnchangedByApi

GetConversation(t) ==
    /\ running = NoTask
    /\ pc[t] = "pending"
    /\ requests[t].kind = "get_conversation"
    /\ responses' = [responses EXCEPT ![t] =
           [status |-> 200, conversation |-> get_conversation_history(conversation_history)]]
    /\ pc' = [pc EXCEPT ![t] = "done"]
    /\ UNCHANGED <<conversation_history, chat_ml, appended, requests, running, owners>>
    /\ UnchangedByApi

DeleteConversation(t) ==
    /\ running = NoTask
    /\ pc[t] = "pending"
    /\ requests[t].kind = "delete_conversation"
    /\ conversation_history' = clear_conversation(conversation_history)
    /\ appended' = <<>>
    /\ owners' = <<>>
    /\ responses' = [responses EXCEPT ![t] =
           [status |-> 200, message |-> "(ok) Conversation effacee"]]
    /\ pc' = [pc EXCEPT ![t] = "done"]
    /\ UNCHANGED <<chat_ml, requests, running>>
    /\ UnchangedByApi

NextApi ==
    \/ \E req \in Requests : Receive(req)
    \/ \E t \in Tasks : ChatBegin(t)
    \/ \E t \in Tasks : ChatResume(t)
    \/ \E t \in Tasks : GetConversation(t)
    \/ \E t \in Tasks : DeleteConversation(t)

SpecApi == InitApi /\ [][NextApi]_vars

\* C10: with several /chat, GET /conversation and DELETE /conversation
\* requests in flight, a process_message call keeps the loop until it is done,
\* and in the shared history every user entry is immediately followed by the
\* same request's assistant reply: no other request's append or clear comes
\* between the two.
C10_NoInterleaving ==
    /\ \A t \in Tasks : pc[t] = "delay" => running = t
    /\ conversation_history = last_n(appended, MAX_CONVERSATION_LENGTH)
    /\ Len(owners) = Len(appended)
    /\ \A i \in 1..Len(appended) :
         /\ appended[i].role = "user" =>
              IF i = Len(appended) THEN pc[owners[i]] = "delay"
              ELSE appended[i + 1].role = "assistant" /\ owners[i + 1] = owners[i]
         /\ appended[i].role = "assistant" =>
              i > 1 /\ appended[i - 1].role = "user" /\ owners[i - 1] = owners[i]


-----------------------------------------------------------------------------
(* The session specification: the same caller as in Spec, starting from a    *)
(* session that earlier add_message calls have filled (the loop of           *)
(* test_conversation_limit run 0, 1 or MAX_CONVERSATION_LENGTH times)        *)

SessionStarts ==
    {add_messages_loop(Engine(<<>>, <<>>, MLEngine(h)), 0, n) :
        h \in HistoricalDraws, n \in {0, 1, MAX_CONVERSATION_LENGTH}}

SessionInputs == {"hello", "good morning", "Train a new model"}

InitSession ==
    /\ \E eng \in SessionStarts :
         /\ conversation_history = eng.history
         /\ appended = eng.log
         /\ chat_ml = eng.ml
    /\ last = NoCall
    /\ nsteps = 0
    /\ IdleText
    /\ IdleApi
    /\ ml_engine = NoEngine
    /\ database = NoDatabase
    /\ db_session = NoDatabase

\* a direct call of get_instant_response, as the API layer or a test may make
GetInstantResponse(message) ==
    /\ nsteps < MaxSteps
    /\ LET r == get_instant_response_on(Engine(conversation_history, appended, chat_ml),
                                        message)
       IN  /\ conversation_history' = r.eng.history
           /\ appended' = r.eng.log
           /\ chat_ml' = r.eng.ml
           /\ last' = [NoCall EXCEPT !.op = "get_instant_response", !.arg = message,
                                     !.ret = r.ret.value, !.calls = r.eng.calls,
                                     !.before = conversation_history]
    /\ nsteps' = nsteps + 1
    /\ UNCHANGED <<input, output, requests, pc, running, responses, owners, ml_engine, database, db_session>>

NextSession ==
    \/ \E role \in Roles, content \in Contents : AddMessage(role, content)
    \/ \E m \in SessionInputs : \E e \in Draws(m) : ProcessMessage(m, e)
    \/ GetConversationHistory
    \/ ClearConversation
    \/ \E m \in SessionInputs \cup {"quick question"} : GetInstantResponse(m)

SpecSession == InitSession /\ [][NextSession]_vars

\* C11: clear_conversation leaves the session empty from any state; a
\* get_conversation_history called immediately afterwards returns a sequence
\* of length 0, and an append made afterwards starts a new log.
C11_ClearEmpties ==
    [][/\ last'.op = "clear_conversation" => conversation_history' = <<>>
       /\ (last.op = "clear_conversation" /\ last'.op = "get_conversation_history")
             => Len(last'.history_ret) = 0
       /\ (last.op = "clear_conversation" /\ last'.op = "add_message")
             => conversation_history' = <<Message(last'.role, last'.arg)>>]_vars

\* C11 witness: a full session has just been cleared
C11_Witness ==
    /\ last.op = "clear_conversation"
    /\ Len(last.before) = MAX_CONVERSATION_LENGTH
    /\ conversation_history = <<>>


\* C12: for every truthy message value that /chat hands to process_message,
\* string or not, process_message ends with a reply instead of raising, so
\* the request is answered 200 and no user entry stays in the history without
\* the assistant entry that answers it.
C12_NoFatalError ==
    \A t \in Tasks :
        (pc[t] = "done" /\ requests[t].kind = "chat" /\ json_truthy(requests[t])) =>
            /\ responses[t].status = 200
            /\ \A i \in 1..Len(appended) :
                 (owners[i] = t /\ appended[i].role = "user") =>
                     /\ i < Len(appended)
                     /\ appended[i + 1].role = "assistant"
                     /\ owners[i + 1] = t

\* C13: a /chat request whose message is missing or empty is answered 400
\* "Message requis", not 500, and nothing of it reaches the history.
C13_EmptyRejectedWith400 ==
    \A t \in Tasks :
        (pc[t] = "done" /\ requests[t].kind = "chat" /\ ~json_truthy(requests[t])) =>
            /\ responses[t].status = 400
            /\ responses[t].detail = "Message requis"
            /\ \A i \in 1..Len(owners) : owners[i] # t


\* C14: process_message("Train a new model") is routed to the training
\* composer, and when training succeeds the reply names the model and embeds
\* the score and the improvement as percentages with one decimal and the
\* elapsed time in seconds with one decimal: a score of 0.918 reached in
\* 12.4 s reads "91.8%" and "12.4", a score of 0.850 reached in 0.3 s reads
\* "85.0%" and "0.3".
C14_TrainingReply ==
    (last.op = "process_message" /\ last.arg = "Train a new model" /\ ~last.fails) =>
        /\ CountOf(last.calls, "handle_training_request") = 1
        /\ CountOf(last.calls, "train_model") = 1
        /\ \A other \in {"handle_greeting", "handle_prediction_request",
                         "handle_analysis_request", "handle_general_request"} :
               CountOf(last.calls, other) = 0
        /\ contains("**New Model**: SimulatedML_v1\n", last.ret)
        /\ chat_ml.model_data.trend_slope = 5 =>
               /\ contains("**Performance Score**: 91.8%\n", last.ret)
               /\ contains("**Training Duration**: 12.4 seconds\n", last.ret)
               /\ contains("Accuracy: +3.0% vs previous model", last.ret)
        /\ chat_ml.model_data.trend_slope = 15 =>
               /\ contains("**Performance Score**: 85.0%\n", last.ret)
               /\ contains("**Training Duration**: 0.3 seconds\n", last.ret)
               /\ contains("Accuracy: +8.0% vs previous model", last.ret)
        /\ conversation_history[Len(conversation_history)] = Message("assistant", last.ret)

\* C14 witness: a training request that succeeded with score 0.918 in 12.4 s
C14_Witness ==
    /\ last.op = "process_message" /\ last.arg = "Train a new model" /\ ~last.fails
    /\ chat_ml.is_trained /\ chat_ml.model_data.trend_slope = 5
    /\ contains("91.8%", last.ret) /\ contains("12.4", last.ret)


\* C15: messages are immutable.  No session operation changes the role or the
\* content of an entry already in the history: across any step the entries
\* that were there either keep their value and their order, or disappear
\* from the front (only as many as were appended, and only into a full
\* history), or disappear all together on clear_conversation.
C15_EntriesImmutable ==
    [][LET h  == conversation_history
           h2 == conversation_history'
           n  == Len(appended') - Len(appended)
           k  == Len(h) + n - Len(h2)
       IN  \/ last'.op = "clear_conversation" /\ h2 = <<>>
           \/ /\ k \in 0..n
              /\ \A i \in 1..(Len(h) - k) : h2[i] = h[i + k]
              /\ \A j \in 1..n : Len(h2) - n + j >= 1 =>
                     h2[Len(h2) - n + j] = appended'[Len(appended) + j]
              /\ k > 0 => Len(h2) = MAX_CONVERSATION_LENGTH]_vars

\* C15 witness: add_message on a full history evicted the oldest entry and
\* left the others as they were, one place nearer the front
C15_Witness ==
    /\ last.op = "add_message"
    /\ Len(last.before) = MAX_CONVERSATION_LENGTH
    /\ Len(conversation_history) = MAX_CONVERSATION_LENGTH
    /\ conversation_history[1] = last.before[2]
    /\ conversation_history[MAX_CONVERSATION_LENGTH] = Message(last.role, last.arg)


\* C16: get_instant_response has no side effects: a call of it, whether or not
\* it finds a reply, leaves the conversation history and the state of the ML
\* engine exactly as they were.
C16_InstantLookupIsPure ==
    [][last'.op = "get_instant_response" =>
          /\ conversation_history' = conversation_history
          /\ appended' = appended
          /\ chat_ml' = chat_ml]_vars

\* C16 witness: a lookup that found a reply, made on a session that holds
\* entries and whose model has been trained
C16_Witness ==
    /\ last.op = "get_instant_response"
    /\ last.ret # ""
    /\ last.before # <<>>
    /\ conversation_history = last.before
    /\ chat_ml.is_trained


-----------------------------------------------------------------------------
(* The composer specification: the reply templates of chatbot.py 160-354     *)
(* applied to one collaborator result or one message, drawn in the initial   *)
(* state.  The collaborator is an attribute of the engine that callers and   *)
(* tests may replace, so the results range over more than MLEngine returns.  *)

\* point estimates in hundredths, on both sides of the threshold 150 of line 181
PredictionValues == {0, 14999, 15000, 15001, 20000}

\* trend labels: the two of analyze_data, and others a replaced collaborator
\* may return
TrendLabels == {"Increasing", "Decreasing", "increasing", "Stable", "Croissante"}

PredictionResults ==
    {[kind |-> "prediction",
      intro |-> random_choice(simulation_responses.prediction, p),
      result |-> [predict_next_values(MLEngine(h), 7, d).result EXCEPT !.prediction = v]] :
        p \in 1..3, h \in HistoricalDraws, d \in Range(NumericDraws), v \in PredictionValues}

AnalysisResults ==
    {[kind |-> "analysis",
      intro |-> random_choice(simulation_responses.analysis, p),
      result |-> [analyze_data(MLEngine(h), d).result EXCEPT !.trend = t]] :
        p \in 1..3, h \in HistoricalDraws, d \in Range(NumericDraws), t \in TrendLabels}

GeneralWords ==
    {"how", "work", "explain", "methodology", "help", "assistance", "commands",
     "data", "dataset", "information", "what now"}

\* a text of 64 characters and one of 50, both without any template keyword
LongTexts ==
    {"tell me something nice about the upcoming quarter results please",
     "tell me something nice about the upcoming quarter "}

GeneralTexts ==
    GeneralWords
    \cup {a \o " " \o b : a \in GeneralWords, b \in GeneralWords}
    \cup {upper(w) : w \in GeneralWords}
    \cup LongTexts

GeneralInputs ==
    {[kind |-> "general", text |-> t, pick |-> p] : t \in GeneralTexts, p \in 1..3}

InitCompose ==
    /\ input \in PredictionResults \cup AnalysisResults \cup GeneralInputs
    /\ output = NoOutput
    /\ conversation_history = <<>>
    /\ chat_ml \in {MLEngine(h) : h \in {CHOOSE h \in HistoricalDraws : TRUE}}
    /\ appended = <<>>
    /\ last = NoCall
    /\ nsteps = 0
    /\ IdleApi
    /\ ml_engine = NoEngine
    /\ database = NoDatabase
    /\ db_session = NoDatabase

ComposePrediction ==
    /\ output = NoOutput
    /\ input.kind = "prediction"
    /\ output' = [fn |-> "prediction_response",
                  text |-> prediction_response(input.intro, input.result)]
    /\ UnchangedByText

ComposeAnalysis ==
    /\ output = NoOutput
    /\ input.kind = "analysis"
    /\ output' = [fn |-> "analysis_response",
                  text |-> analysis_response(input.intro, input.result)]
    /\ UnchangedByText

HandleGeneralRequest ==
    /\ output = NoOutput
    /\ input.kind = "general"
    /\ LET r == handle_general_request(
                    Engine(conversation_history, appended, chat_ml), input.text,
                    [pick |-> input.pick, fails |-> FALSE, draw |-> 1, error |-> ""])
       IN  /\ output' = [fn |-> "handle_general_request", ret |-> r.ret]
           /\ conversation_history' = r.eng.history
           /\ appended' = r.eng.log
           /\ chat_ml' = r.eng.ml
    /\ UNCHANGED <<last, nsteps, input, requests, pc, running, responses, owners, ml_engine, database, db_session>>

NextCompose == ComposePrediction \/ ComposeAnalysis \/ HandleGeneralRequest

SpecCompose == InitCompose /\ [][NextCompose]_vars

\* C17: the remark of a prediction reply is "positive" exactly when the point
\* estimate is greater than 150, and "stable" otherwise, an estimate of
\* exactly 150 included.
C17_PositiveAbove150 ==
    output.fn = "prediction_response" =>
        /\ contains("The trend appears positive based", output.text)
               <=> input.result.prediction > 15000
        /\ contains("The trend appears stable based", output.text)
               <=> input.result.prediction <= 15000

\* C17 witness: a reply composed for an estimate of exactly 150.00
C17_Witness ==
    /\ output.fn = "prediction_response"
    /\ input.result.prediction = 15000
    /\ contains("**Average Forecast**: 150.00\n", output.text)
    /\ contains("The trend appears stable based", output.text)

\* C18: the recommendation of an analysis reply is "Maintain current strategy"
\* exactly when the trend label equals "Increasing", and "Adjust strategy to
\* reverse the trend" for every other label.
C18_MaintainIffIncreasing ==
    output.fn = "analysis_response" =>
        /\ contains("(dot) Maintain current strategy\n", output.text)
               <=> input.result.trend = "Increasing"
        /\ contains("(dot) Adjust strategy to reverse the trend\n", output.text)
               <=> input.result.trend # "Increasing"

\* C18 witness: a reply composed for the label "Increasing"
C18_Witness ==
    /\ output.fn = "analysis_response"
    /\ input.result.trend = "Increasing"
    /\ contains("**(trend) Overall Trend**: Increasing\n", output.text)
    /\ contains("(dot) Maintain current strategy\n", output.text)


\* C19: handle_general_request picks its template by priority over the
\* lowercased message: the how-it-works text when it contains how, work,
\* explain or methodology; otherwise the help text when it contains help,
\* assistance or commands; otherwise the data-sources text when it contains
\* data, dataset or information; otherwise a generic reply that echoes at most
\* the first 50 characters of the message.  The reply is appended to the
\* history as an assistant entry.
C19_TemplatePriority ==
    output.fn = "handle_general_request" =>
        LET t == lower(input.text)
            how == \E w \in {"how", "work", "explain", "methodology"} : contains(w, t)
            help == \E w \in {"help", "assistance", "commands"} : contains(w, t)
            data == \E w \in {"data", "dataset", "information"} : contains(w, t)
            echoed == SubSeq(input.text, 1, IF Len(input.text) > 50 THEN 50 ELSE Len(input.text))
        IN  /\ startswith(output.ret, "(robot) **How I Work - Technical Overview**") <=> how
            /\ startswith(output.ret, "(bulb) **Help - Available Commands**") <=> (~how /\ help)
            /\ startswith(output.ret, "(chart) **My Data Sources & Processing**")
                   <=> (~how /\ ~help /\ data)
            /\ (~how /\ ~help /\ ~data) =>
                   /\ \E i \in 1..Len(simulation_responses.general) :
                          startswith(output.ret, simulation_responses.general[i])
                   /\ contains("Based on your message (\"" \o echoed \o "...\"), I can:", output.ret)
                   /\ Len(input.text) > 50 => ~contains(input.text, output.ret)
            /\ conversation_history = <<Message("assistant", output.ret)>>

\* C19 witness: a message with a help word before a how-it-works word was
\* given the how-it-works text
C19_Witness ==
    /\ output.fn = "handle_general_request"
    /\ input.text = "help how"
    /\ startswith(output.ret, "(robot) **How I Work - Technical Overview**")
    /\ conversation_history = <<Message("assistant", output.ret)>>


\* C20: detect_ml_intent classifies the prediction request "Predit les ventes"
\* (with its accent) as 'prediction', and the small talk "Bonjour comment ca
\* va?" (with its cedilla), which holds no keyword, as 'chat'.
C20_TestIntentDetection ==
    output.fn = "detect_ml_intent" =>
        /\ input = "Pr(e')dit les ventes" => output.intent_result.intent = "prediction"
        /\ input = "Bonjour comment (c,)a va?" => output.intent_result.intent = "chat"


-----------------------------------------------------------------------------
(* The engine specification: one MLEngine used directly, as TestMLEngine     *)
(* does (tests/test_basic.py 12-48).  last.calls is the list of the calls    *)
(* made on it so far.                                                        *)

\* the n_days handed to predict_next_values: none, one, the 5 of the test and
\* the default 7
NDays == {0, 1, 5, 7}

InitMl ==
    /\ ml_engine \in {MLEngine(h) : h \in HistoricalDraws}
    /\ conversation_history = <<>>
    /\ chat_ml = NoEngine
    /\ appended = <<>>
    /\ last = NoCall
    /\ nsteps = 0
    /\ IdleText
    /\ IdleApi
    /\ database = NoDatabase
    /\ db_session = NoDatabase

\* one call on the engine: out is what the method did, args what it was given
MlCall(name, args, out) ==
    /\ nsteps < MaxSteps
    /\ ml_engine' = out.ml
    /\ output' = [fn |-> name, args |-> args, raised |-> out.raised,
                  result |-> IF out.raised THEN out.error ELSE out.result,
                  was_trained |-> ml_engine.is_trained]
    /\ last' = [last EXCEPT !.op = name, !.calls = Append(last.calls, name)]
    /\ nsteps' = nsteps + 1
    /\ UNCHANGED <<conversation_history, chat_ml, appended, input,
                   requests, pc, running, responses, owners, database, db_session>>

TrainModel(d) == MlCall("train_model", <<>>, train_model(ml_engine, d))

PredictNextValues(n_days, d) ==
    MlCall("predict_next_values", <<n_days>>, predict_next_values(ml_engine, n_days, d))

AnalyzeData(d) == MlCall("analyze_data", <<>>, analyze_data(ml_engine, d))

GetModelInfo ==
    MlCall("get_model_info", <<>>,
           [ml |-> ml_engine, raised |-> FALSE, result |-> get_model_info(ml_engine)])

GenerateSampleData(h) ==
    MlCall("generate_sample_data", <<>>, generate_sample_data(ml_engine, h))

NextMl ==
    \/ \E d \in Range(NumericDraws) : TrainModel(d)
    \/ \E n_days \in NDays, d \in Range(NumericDraws) : PredictNextValues(n_days, d)
    \/ \E d \in Range(NumericDraws) : AnalyzeData(d)
    \/ GetModelInfo
    \/ \E h \in HistoricalDraws : GenerateSampleData(h)

SpecMl == InitMl /\ [][NextMl]_vars

\* C21: analyze_data always returns a trend label that is 'Croissante' or
\* 'Decroissante' (written with its accent as D(e')croissante), a list of
\* correlations and a data_points count greater than 0, trained or not.
C21_FrenchTrendLabels ==
    output.fn = "analyze_data" =>
        /\ ~output.raised
        /\ output.result.trend \in {"Croissante", "D(e')croissante"}
        /\ DOMAIN output.result.correlations = 1..Len(output.result.correlations)
        /\ output.result.data_points > 0

C23_TrainedForGood ==
    [][/\ output'.fn = "train_model" =>
             /\ ml_engine'.is_trained
             /\ output'.result.score > 0
             /\ output'.result.model_name # ""
       /\ ~ml_engine'.is_trained =>
             \A i \in 1..Len(last'.calls) :
                 last'.calls[i] \notin {"train_model", "predict_next_values"}
       /\ ml_engine.is_trained => ml_engine'.is_trained]_vars

\* C23 witness: the engine was trained, another operation ran, and it is
\* still trained
C23_Witness ==
    /\ Len(last.calls) = 2
    /\ last.calls[1] = "train_model"
    /\ last.calls[2] \in {"analyze_data", "get_model_info", "generate_sample_data"}
    /\ ml_engine.is_trained


\* C24: every example command that the help reply lists under a category is
\* routed by process_message to the composer of that category: the examples
\* under Predictions to the prediction composer, those under Training to the
\* training composer, those under Analysis to the analysis composer and those
\* under General Questions to the general composer.
C24_HelpExamplesRouted ==
    output.fn = "process_message" =>
        \A x \in HelpExamples :
            input = x[2] =>
                /\ contains("\"" \o x[2] \o "\"", help_response)
                /\ CountOf(output.calls, x[1]) = 1


-----------------------------------------------------------------------------
(* The chat specification: a session driven by process_message alone, from   *)
(* the start or after earlier process_message calls have filled it           *)

\* for i in range(n): await process_message(f"hello {i}")
RECURSIVE process_messages_loop(_, _, _)
process_messages_loop(eng, i, n) ==
    IF i >= n THEN eng
    ELSE LET r == process_message(eng, "hello " \o str_int(i),
                                  [pick |-> 1, fails |-> FALSE, draw |-> 1, error |-> ""])
         IN  \* the awaited call has returned its reply, which is never empty,
             \* before the next iteration begins
             IF r.ret = "" THEN r.eng ELSE process_messages_loop(r.eng, i + 1, n)

\* numbers of earlier calls: none, one, one short of capacity, exactly at
\* capacity (25 pairs) and past it
ChatStarts ==
    {process_messages_loop(Engine(<<>>, <<>>, MLEngine(h)), 0, n) :
        h \in HistoricalDraws, n \in {0, 1, 24, 25, 30}}

InitChat ==
    /\ \E eng \in ChatStarts :
         /\ conversation_history = eng.history
         /\ appended = eng.log
         /\ chat_ml = eng.ml
    /\ last = NoCall
    /\ nsteps = 0
    /\ IdleText
    /\ IdleApi
    /\ ml_engine = NoEngine
    /\ database = NoDatabase
    /\ db_session = NoDatabase

NextChat == \E m \in SessionInputs : \E e \in Draws(m) : ProcessMessage(m, e)

SpecChat == InitChat /\ [][NextChat]_vars

\* C25: in a session that starts empty and is driven by process_message calls
\* only, after every completed call the history has even length <= 50,
\* starts with a user entry and strictly alternates user / assistant, each
\* assistant entry being the reply to the user entry just before it (the
\* newest pair is this call's message and reply, the pairs before it are the
\* earlier pairs unchanged); this holds after front truncation has begun.
C25_AlternatingPairs ==
    [][last'.op = "process_message" =>
          LET h  == conversation_history
              h2 == conversation_history'
              k  == Len(h) + 2 - Len(h2)
          IN  /\ Len(h2) % 2 = 0
              /\ Len(h2) <= MAX_CONVERSATION_LENGTH
              /\ Len(h2) >= 2
              /\ \A i \in 1..Len(h2) :
                     h2[i].role = (IF i % 2 = 1 THEN "user" ELSE "assistant")
              /\ h2[Len(h2) - 1] = Message("user", last'.arg)
              /\ h2[Len(h2)] = Message("assistant", last'.ret)
              /\ k \in {0, 2}
              /\ \A i \in 1..(Len(h) - k) : h2[i] = h[i + k]]_vars

\* C25 witness: a call made on a full history, whose oldest pair was evicted
C25_Witness ==
    /\ last.op = "process_message"
    /\ Len(last.before) = MAX_CONVERSATION_LENGTH
    /\ Len(appended) > MAX_CONVERSATION_LENGTH
    /\ Len(conversation_history) = MAX_CONVERSATION_LENGTH
    /\ conversation_history[1] = last.before[3]
    /\ conversation_history[1].role = "user"


\* C26: every input to process_message whose text, lowercased as the code
\* lowercases it, contains "hello", "hi" or "hey" anywhere (inside "this",
\* for one) gets an instant-cache reply, and neither the classifier nor a
\* composer nor a collaborator is invoked.  So handle_greeting is reached
\* through process_message only by inputs that contain "good", no
\* instant-cache key, no speed word and no prediction, training or analysis
\* keyword.
C26_GreetingOnlyByGood ==
    output.fn = "process_message" =>
        LET t == lower(input)
        IN  /\ (\E k \in {"hello", "hi", "hey"} : contains(k, t)) =>
                  /\ \E key \in CacheKeys : output.ret = CacheReply(key)
                  /\ CountOf(output.calls, "detect_ml_intent") = 0
                  /\ \A op \in CollaboratorOps : CountOf(output.calls, op) = 0
                  /\ \A h \in {"handle_greeting", "handle_prediction_request",
                               "handle_training_request", "handle_analysis_request",
                               "handle_general_request"} : CountOf(output.calls, h) = 0
            /\ CountOf(output.calls, "handle_greeting") > 0 =>
                  /\ contains("good", t)
                  /\ \A key \in CacheKeys : ~contains(key, t)
                  /\ \A w \in Range(speed_words) : ~contains(w, t)
                  /\ \A intent \in {"prediction", "training", "analysis"} :
                         ~HasKeyword(intent, t)

\* C26 witness: "this model" holds "hi" inside "this" and a training keyword;
\* it was answered from the cache
C26_Witness ==
    /\ output.fn = "process_message"
    /\ input = "this model"
    /\ output.ret = CacheReply("hi")
    /\ CountOf(output.calls, "detect_ml_intent") = 0


-----------------------------------------------------------------------------
(* The two-engine specification: /chat together with the endpoints that use  *)
(* the module-level ml_engine of api.py (86-150).  Their handlers never      *)
(* await, so each runs as one step of the loop.                              *)

EngineRequests ==
    {[kind |-> "chat", has_message |-> TRUE, message |-> m, json_type |-> "string"] :
        m \in {"Train a new model", "predict next week"}}
    \cup {[kind |-> k, has_message |-> FALSE, message |-> "", json_type |-> "string"] :
            k \in {"train", "predict", "analyze", "model_info", "health"}}

\* a call made on the module-level engine: chatbot.ml_engine is another
\* instance (chatbot.py 10, api.py 30-31) and is not the one that changes
on_shared_engine(engines, out) == [chatbot |-> out.ml, global |-> out.ml]

on_global_engine(engines, out) == [chatbot |-> engines.chatbot, global |-> out.ml]

\* a handler that calls one method of ml_engine and wraps what it returns
MlEndpoint(t, kind, out, body) ==
    /\ running = NoTask
    /\ pc[t] = "pending"
    /\ requests[t].kind = kind
    /\ LET after == on_global_engine([chatbot |-> chat_ml, global |-> ml_engine], out)
       IN  /\ chat_ml' = after.chatbot
           /\ ml_engine' = after.global
    /\ responses' = [responses EXCEPT ![t] =
           IF out.raised THEN [status |-> 500, detail |-> out.error] ELSE body]
    /\ pc' = [pc EXCEPT ![t] = "done"]
    /\ UNCHANGED <<conversation_history, appended, requests, running, owners,
                   last, nsteps, input, output, database, db_session>>

PredictEndpoint(t) ==
    \E d \in Range(NumericDraws) :
        LET out == predict_next_values(ml_engine, 7, d)
        IN  MlEndpoint(t, "predict", out,
                       [status |-> 200, prediction |-> IF out.raised THEN <<>> ELSE out.result])

TrainEndpoint(t) ==
    \E d \in Range(NumericDraws) :
        LET out == train_model(ml_engine, d)
        IN  MlEndpoint(t, "train", out, [status |-> 200, training_result |-> out.result])

AnalyzeEndpoint(t) ==
    \E d \in Range(NumericDraws) :
        LET out == analyze_data(ml_engine, d)
        IN  MlEndpoint(t, "analyze", out, [status |-> 200, analysis |-> out.result])

ModelInfo(t) ==
    MlEndpoint(t, "model_info", [ml |-> ml_engine, raised |-> FALSE],
               [status |-> 200, model_info |-> get_model_info(ml_engine)])

HealthCheck(t) ==
    LET model_info == get_model_info(ml_engine)
    IN  MlEndpoint(t, "health", [ml |-> ml_engine, raised |-> FALSE],
                   [status |-> 200, model_ready |-> model_info.is_trained,
                    data_points |-> model_info.data_points])

NextEngines ==
    \/ \E req \in EngineRequests : Receive(req)
    \/ \E t \in Tasks :
         \/ ChatBegin(t)
         \/ ChatResume(t)
         \/ PredictEndpoint(t)
         \/ TrainEndpoint(t)
         \/ AnalyzeEndpoint(t)
         \/ ModelInfo(t)
         \/ HealthCheck(t)

SpecEngines == InitApi /\ [][NextEngines]_vars

\* C27: the chatbot's engine and the engine of /train, /predict, /analyze,
\* /health and /model/info are separate instances.  A step of a /chat request
\* that trains or predicts leaves the module-level engine, and so what
\* /health and /model/info report, unchanged; /train and /predict leave the
\* chatbot's engine unchanged; and /health and /model/info report the
\* module-level engine's is_trained whatever the chatbot's engine holds.
C27_SeparateEngines ==
    [][/\ chat_ml' # chat_ml => ml_engine' = ml_engine
       /\ ml_engine' # ml_engine => chat_ml' = chat_ml
       /\ \A t \in 1..Len(pc) :
            (pc[t] = "pending" /\ pc'[t] = "done") =>
                /\ requests[t].kind = "chat" => ml_engine' = ml_engine
                /\ requests[t].kind \in {"train", "predict"} => chat_ml' = chat_ml
                /\ requests[t].kind = "health" =>
                       responses'[t].model_ready = ml_engine.is_trained
                /\ requests[t].kind = "model_info" =>
                       responses'[t].model_info.is_trained = ml_engine.is_trained]_vars

\* C27 witness: a training request answered through /chat has trained the
\* chatbot's engine, and /health reports the model as not ready
C27_Witness ==
    \E t \in Tasks, u \in Tasks :
        /\ requests[t].kind = "chat" /\ requests[t].message = "Train a new model"
        /\ pc[t] = "done" /\ responses[t].status = 200
        /\ chat_ml.is_trained
        /\ ~ml_engine.is_trained
        /\ requests[u].kind = "health"
        /\ pc[u] = "done" /\ ~responses[u].model_ready


-----------------------------------------------------------------------------
(* The persistence layer (database/dao.py): DAOs over one SQLAlchemy session *)
(* made with autocommit=False, autoflush=False (database/connection.py       *)
(* 60-64).  A store is the committed tables (db), the session's working copy *)
(* of them (tx) and whether the session holds uncommitted changes (pending). *)
(* A row's field old says that its date lies before the cutoff that          *)
(* cleanup_old_data applies to its table.                                    *)

Store(db, ses) == [db |-> db, tx |-> ses.tx, pending |-> ses.pending]

\* session.add / session.add_all / an attribute assignment / a bulk delete:
\* they change the working copy only
session_write(s, table, rows) == [s EXCEPT !.tx[table] = rows, !.pending = TRUE]

session_commit(s) == [s EXCEPT !.db = s.tx, !.pending = FALSE]

session_rollback(s) == [s EXCEPT !.tx = s.db, !.pending = FALSE]

\* .order_by(Conversation.created_at).all()
RECURSIVE order_by_created_at(_)
order_by_created_at(rows) ==
    IF rows = {} THEN <<>>
    ELSE LET first == CHOOSE r \in rows : \A q \in rows : r.created_at <= q.created_at
         IN  <<first>> \o order_by_created_at(rows \ {first})

\* ConversationDAO.get_conversation_history: the first `limit` rows of the
\* session in creation order, or [] when the query raises SQLAlchemyError
dao_get_conversation_history(s, session_id, limit, fails) ==
    IF fails THEN <<>>
    ELSE LET rows == order_by_created_at(
                         {r \in s.tx.conversations : r.session_id = session_id})
         IN  SubSeq(rows, 1, IF Len(rows) < limit THEN Len(rows) ELSE limit)

\* get_dashboard_summary, the part of its result read from the conversations
get_dashboard_summary(s, fails) ==
    LET recent_conversations == dao_get_conversation_history(s, "default", 10, fails)
    IN  [recent_activity |-> [conversations |-> last_n(recent_conversations, 5)]]

old_rows(rows) == {r \in rows : r.old}

\* cleanup_old_data runs seven statements: count and delete the old sales
\* (1, 2), the old predictions (3, 4), the old conversations (5, 6), commit
\* (7).  cleanup_progress is the store once the first k of them are done.
cleanup_progress(s, k) ==
    LET s2 == IF k >= 2
              THEN session_write(s, "sales_data", s.tx.sales_data \ old_rows(s.tx.sales_data))
              ELSE s
        s4 == IF k >= 4
              THEN session_write(s2, "predictions", s2.tx.predictions \ old_rows(s2.tx.predictions))
              ELSE s2
        s6 == IF k >= 6
              THEN session_write(s4, "conversations",
                                 s4.tx.conversations \ old_rows(s4.tx.conversations))
              ELSE s4
    IN  s6

\* fail_at is the statement that raises, 0 when none does
cleanup_old_data_autocommit(s, fail_at) ==
    IF fail_at = 0
    THEN [s |-> session_commit(cleanup_progress(s, 6)),
          ret |-> [success |-> TRUE,
                   deleted_records |->
                       [sales_data |-> Cardinality(old_rows(s.tx.sales_data)),
                        predictions |-> Cardinality(old_rows(s.tx.predictions)),
                        conversations |-> Cardinality(old_rows(s.tx.conversations))]]]
    ELSE [s |-> session_rollback(session_commit(cleanup_progress(s, fail_at - 1))),
          ret |-> [success |-> FALSE, error |-> "statement failed"]]

cleanup_old_data(s, fail_at) ==
    IF fail_at = 0
    THEN [s |-> session_commit(cleanup_progress(s, 6)),
          ret |-> [success |-> TRUE,
                   deleted_records |->
                       [sales_data |-> Cardinality(old_rows(s.tx.sales_data)),
                        predictions |-> Cardinality(old_rows(s.tx.predictions)),
                        conversations |-> Cardinality(old_rows(s.tx.conversations))]]]
    ELSE [s |-> session_rollback(cleanup_progress(s, fail_at - 1)),
          ret |-> [success |-> FALSE, error |-> "statement failed"]]


\* the members of the MessageType enum: the two roles a message can have
MessageType == {"user", "assistant"}

\* the id the database gives a new row
new_id(rows) ==
    IF rows = {} THEN 1 ELSE 1 + (CHOOSE n \in {r.id : r \in rows} : \A r \in rows : r.id <= n)

\* How a DAO call ended: the store it left, what it returned (ret, and
\* whether that is its failure sentinel None, 0 or False), the exception that
\* escaped it if any, and whether its last session call was commit, rollback
\* or neither.
Ended(s, ret, sentinel, escaped, ended) ==
    [s |-> s, ret |-> ret, sentinel |-> sentinel, escaped |-> escaped, ended |-> ended]

\* try: add(..); commit(); refresh(..); return value / except SQLAlchemyError:
\* rollback(); return the sentinel.  fail_at names the session call that
\* raises SQLAlchemyError: "commit", "refresh" (the commit has gone through by
\* then), or "" for none.
commit_or_rollback(changed, value, sentinel_value, fail_at) ==
    IF fail_at = "commit"
    THEN Ended(session_rollback(changed), sentinel_value, TRUE, "", "rollback")
    ELSE IF fail_at = "refresh"
    THEN Ended(session_rollback(session_commit(changed)), sentinel_value, TRUE, "", "rollback")
    ELSE Ended(session_commit(changed), value, FALSE, "", "commit")

create_sales_record(s, sales_data, fail_at) ==
    LET new_sale == [id |-> new_id(s.tx.sales_data), old |-> sales_data.old]
    IN  commit_or_rollback(session_write(s, "sales_data", s.tx.sales_data \cup {new_sale}),
                           new_sale, None, fail_at)

RECURSIVE add_all(_, _)
add_all(rows, sales_list) ==
    IF sales_list = <<>> THEN rows
    ELSE add_all(rows \cup {[id |-> new_id(rows), old |-> Head(sales_list).old]},
                 Tail(sales_list))

bulk_insert_sales(s, sales_list, fail_at) ==
    commit_or_rollback(session_write(s, "sales_data", add_all(s.tx.sales_data, sales_list)),
                       Len(sales_list), 0, fail_at)

create_model(s, model_data, fail_at) ==
    LET new_model == [id |-> new_id(s.tx.ml_models),
                      performance_score |-> model_data.performance_score,
                      is_active |-> model_data.is_active]
    IN  commit_or_rollback(session_write(s, "ml_models", s.tx.ml_models \cup {new_model}),
                           new_model, None, fail_at)

\* query(...).filter(id == row_id).first(); if the row exists change it (to
\* changed_row[row]) and commit, else return False.  fails says that the query or the commit raises.
update_row(s, table, row_id, changed_row, fails) ==
    IF fails THEN Ended(session_rollback(s), FALSE, TRUE, "", "rollback")
    ELSE IF \E r \in s.tx[table] : r.id = row_id
    THEN LET row == CHOOSE r \in s.tx[table] : r.id = row_id
         IN  Ended(session_commit(session_write(s, table,
                       (s.tx[table] \ {row}) \cup {changed_row[row]})),
                   TRUE, FALSE, "", "commit")
    ELSE Ended(s, FALSE, TRUE, "", "neither")

update_model_performance(s, model_id, score, fails) ==
    LET changed == [model \in s.tx.ml_models |-> [model EXCEPT !.performance_score = score]]
    IN  update_row(s, "ml_models", model_id, changed, fails)

set_model_active(s, model_id, is_active, fails) ==
    LET changed == [model \in s.tx.ml_models |-> [model EXCEPT !.is_active = is_active]]
    IN  update_row(s, "ml_models", model_id, changed, fails)

create_prediction(s, prediction_data, fail_at) ==
    LET new_prediction == [id |-> new_id(s.tx.predictions), old |-> prediction_data.old,
                           predicted_value |-> prediction_data.predicted_value,
                           actual_value |-> 0, accuracy_error |-> 0]
    IN  commit_or_rollback(session_write(s, "predictions",
                                         s.tx.predictions \cup {new_prediction}),
                           new_prediction, None, fail_at)

\* the percentage error is computed when predicted_value is truthy
update_actual_value(s, prediction_id, actual_value, fails) ==
    LET abs(x) == IF x < 0 THEN 0 - x ELSE x
        changed ==
            [prediction \in s.tx.predictions |->
             [prediction EXCEPT
                !.actual_value = actual_value,
                !.accuracy_error =
                    IF prediction.predicted_value # 0
                    THEN (abs(actual_value - prediction.predicted_value) * 100)
                             \div prediction.predicted_value
                    ELSE prediction.accuracy_error]]
    IN  update_row(s, "predictions", prediction_id, changed, fails)

\* MessageType(message_type) raises ValueError for a text that is no member;
\* the handler catches SQLAlchemyError only
save_message(s, session_id, message_type, content, fail_at) ==
    IF message_type \notin MessageType
    THEN Ended(s, None, FALSE, "ValueError", "neither")
    ELSE LET new_conversation ==
                 [id |-> new_id(s.tx.conversations), session_id |-> session_id,
                  message_type |-> message_type, content |-> content,
                  created_at |-> new_id(s.tx.conversations), old |-> FALSE]
         IN  commit_or_rollback(session_write(s, "conversations",
                                    s.tx.conversations \cup {new_conversation}),
                                new_conversation, None, fail_at)

\* category is taken to be a member of MetricCategory; the variance is
\* computed when target_value is truthy
save_metric(s, metric_name, value, category, target_value, fail_at) ==
    LET new_metric == [id |-> new_id(s.tx.business_metrics), metric_name |-> metric_name,
                       metric_value |-> value, category |-> category,
                       variance_percentage |->
                           IF target_value # 0
                           THEN ((value - target_value) * 100) \div target_value ELSE 0]
    IN  commit_or_rollback(session_write(s, "business_metrics",
                                         s.tx.business_metrics \cup {new_metric}),
                           new_metric, None, fail_at)


-----------------------------------------------------------------------------
(* The DAOs called one after the other on one session of one database.     *)
(* session.rollback() itself is taken not to raise.                          *)

\* the conversations table after n messages were saved one by one: the
\* second belongs to another session, the first two are older than 30 days
StoredConversations(n) ==
    {[id |-> k, session_id |-> IF k = 2 THEN "other" ELSE "default",
      message_type |-> IF k % 2 = 1 THEN "user" ELSE "assistant",
      content |-> "hi", created_at |-> k, old |-> k <= 2] : k \in 1..n}

\* numbers of stored messages: none, fewer than five of "default", exactly
\* the ten that the dashboard reads, and more than ten
ConversationCounts == {0, 5, 11, 13}

StoredSales == {{}, {[id |-> 1, old |-> TRUE], [id |-> 2, old |-> FALSE]}}

StoredPredictions ==
    {[id |-> 1, old |-> TRUE, predicted_value |-> 100, actual_value |-> 0,
      accuracy_error |-> 0],
     [id |-> 2, old |-> FALSE, predicted_value |-> 0, actual_value |-> 0,
      accuracy_error |-> 0]}

StoredModels == {[id |-> 1, performance_score |-> 80, is_active |-> TRUE]}

InitDao ==
    /\ database \in {[sales_data |-> sales, predictions |-> StoredPredictions,
                      conversations |-> StoredConversations(n),
                      ml_models |-> StoredModels, business_metrics |-> {}] :
                         sales \in StoredSales, n \in ConversationCounts}
    /\ db_session = [tx |-> database, pending |-> FALSE]
    /\ ml_engine = NoEngine
    /\ conversation_history = <<>>
    /\ chat_ml = NoEngine
    /\ appended = <<>>
    /\ last = NoCall
    /\ nsteps = 0
    /\ IdleText
    /\ IdleApi

\* one call of a DAO method or of a module function on the session
DaoCall(name, args, r) ==
    /\ nsteps < MaxSteps
    /\ database' = r.s.db
    /\ db_session' = [tx |-> r.s.tx, pending |-> r.s.pending]
    /\ output' = [fn |-> name, args |-> args, ret |-> r.ret, sentinel |-> r.sentinel,
                  escaped |-> r.escaped, ended |-> r.ended]
    /\ nsteps' = nsteps + 1
    /\ UNCHANGED <<conversation_history, chat_ml, appended, last, input,
                   requests, pc, running, responses, owners, ml_engine>>

CreateSalesRecord(sales_data, fail_at) ==
    DaoCall("create_sales_record", <<sales_data>>,
            create_sales_record(Store(database, db_session), sales_data, fail_at))

BulkInsertSales(sales_list, fail_at) ==
    DaoCall("bulk_insert_sales", <<sales_list>>,
            bulk_insert_sales(Store(database, db_session), sales_list, fail_at))

CreateModel(model_data, fail_at) ==
    DaoCall("create_model", <<model_data>>,
            create_model(Store(database, db_session), model_data, fail_at))

UpdateModelPerformance(model_id, score, fails) ==
    DaoCall("update_model_performance", <<model_id, score>>,
            update_model_performance(Store(database, db_session), model_id, score, fails))

SetModelActive(model_id, is_active, fails) ==
    DaoCall("set_model_active", <<model_id, is_active>>,
            set_model_active(Store(database, db_session), model_id, is_active, fails))

CreatePrediction(prediction_data, fail_at) ==
    DaoCall("create_prediction", <<prediction_data>>,
            create_prediction(Store(database, db_session), prediction_data, fail_at))

UpdateActualValue(prediction_id, actual_value, fails) ==
    DaoCall("update_actual_value", <<prediction_id, actual_value>>,
            update_actual_value(Store(database, db_session), prediction_id,
                                actual_value, fails))

SaveMessage(session_id, message_type, content, fail_at) ==
    DaoCall("save_message", <<session_id, message_type, content>>,
            save_message(Store(database, db_session), session_id, message_type,
                         content, fail_at))

SaveMetric(metric_name, value, category, target_value, fail_at) ==
    DaoCall("save_metric", <<metric_name, value, category, target_value>>,
            save_metric(Store(database, db_session), metric_name, value, category,
                        target_value, fail_at))

GetDashboardSummary(fails) ==
    LET s == Store(database, db_session)
    IN  DaoCall("get_dashboard_summary", <<fails>>,
                Ended(s, get_dashboard_summary(s, fails), FALSE, "", "neither"))

CleanupOldData(fail_at) ==
    LET done == cleanup_old_data(Store(database, db_session), fail_at)
    IN  DaoCall("cleanup_old_data", <<fail_at>>,
                Ended(done.s, done.ret, ~done.ret.success, "",
                      IF done.ret.success THEN "commit" ELSE "rollback"))

FailAt == {"", "commit", "refresh"}

NextDao ==
    \/ \E sales_data \in {[old |-> FALSE], [old |-> TRUE]}, fail_at \in FailAt :
           CreateSalesRecord(sales_data, fail_at)
    \/ \E sales_list \in {<<>>, <<[old |-> FALSE], [old |-> TRUE]>>},
          fail_at \in {"", "commit"} :
           BulkInsertSales(sales_list, fail_at)
    \/ \E fail_at \in FailAt :
           CreateModel([performance_score |-> 90, is_active |-> FALSE], fail_at)
    \/ \E model_id \in {1, 9}, fails \in BOOLEAN :
           UpdateModelPerformance(model_id, 95, fails)
    \/ \E model_id \in {1, 9}, is_active \in BOOLEAN, fails \in BOOLEAN :
           SetModelActive(model_id, is_active, fails)
    \/ \E fail_at \in FailAt :
           CreatePrediction([old |-> FALSE, predicted_value |-> 100], fail_at)
    \/ \E prediction_id \in {1, 2, 9}, fails \in BOOLEAN :
           UpdateActualValue(prediction_id, 110, fails)
    \/ \E message_type \in {"user", "assistant", "robot"}, fail_at \in FailAt :
           SaveMessage("default", message_type, "hi", fail_at)
    \/ \E target_value \in {0, 100}, fail_at \in FailAt :
           SaveMetric("revenue", 120, "sales", target_value, fail_at)
    \/ \E fails \in BOOLEAN : GetDashboardSummary(fails)
    \/ \E fail_at \in 0..7 : CleanupOldData(fail_at)

SpecDao == InitDao /\ [][NextDao]_vars

\* C28: the recent_activity.conversations list returned by
\* get_dashboard_summary holds the last 5 (most recently created) messages of
\* session "default", in creation order, however many messages that session
\* has stored.
C28_LastFiveMessages ==
    (output.fn = "get_dashboard_summary" /\ ~output.args[1]) =>
        output.ret.recent_activity.conversations =
            last_n(order_by_created_at({r \in database.conversations :
                                            r.session_id = "default"}), 5)


CleanedTables == {"sales_data", "predictions", "conversations"}

\* C29: cleanup_old_data is all-or-nothing: either the old sales rows, old
\* prediction rows and old conversation rows are all deleted in one commit
\* and the result has success True with the three deleted counts, or, if any
\* step fails, the session is rolled back, none of the three tables loses a
\* row, and the result has success False.
C29_AllOrNothing ==
    [][(output'.fn = "cleanup_old_data" /\ nsteps' = nsteps + 1) =>
          /\ output'.ret.success <=> output'.args[1] = 0
          /\ ~db_session'.pending
          /\ db_session'.tx = database'
          /\ IF output'.ret.success
             THEN /\ output'.ended = "commit"
                  /\ \A table \in CleanedTables :
                         /\ database'[table] = database[table] \ old_rows(database[table])
                         /\ output'.ret.deleted_records[table] =
                                Cardinality(old_rows(database[table]))
                  /\ \A table \in DOMAIN database \ CleanedTables :
                         database'[table] = database[table]
             ELSE /\ output'.ended = "rollback"
                  /\ database' = database]_vars

\* C29 witness: the commit of cleanup_old_data failed after the three deletes
\* had run, and the old rows of all three tables are still stored
C29_Witness ==
    /\ output.fn = "cleanup_old_data"
    /\ output.args = <<7>>
    /\ ~output.ret.success
    /\ \A table \in CleanedTables : old_rows(database[table]) # {}


WriteOperations ==
    {"create_sales_record", "bulk_insert_sales", "create_model",
     "update_model_performance", "set_model_active", "create_prediction",
     "update_actual_value", "save_message", "save_metric"}

\* C30: every DAO write operation ends in exactly one of two ways for every
\* input: a commit followed by a success value, or a rollback followed by the
\* failure sentinel (None, 0 or False) with nothing persisted; no exception
\* escapes to the caller and no call returns with uncommitted pending changes
\* left in the session.
C30_CommitOrRollback ==
    [][(output'.fn \in WriteOperations /\ nsteps' = nsteps + 1) =>
          /\ output'.escaped = ""
          /\ ~db_session'.pending
          /\ \/ output'.ended = "commit" /\ ~output'.sentinel
             \/ /\ output'.ended = "rollback" /\ output'.sentinel
                /\ database' = database]_vars

====
